---- MODULE Spec2Model ----
(***************************************************************************)
(* Block-storage directory layer of pg_search: the atomic slots, the       *)
(* segment handle catalog, the segment writers and readers, and the        *)
(* request/response bridge between a worker thread and the foreground      *)
(* thread.  Pages are scaled down: MAX_HEAP_TUPLE_SIZE bytes of payload    *)
(* per page, bytes drawn from Byte.                                        *)
(***************************************************************************)
EXTENDS Integers, Sequences, FiniteSets, TLC

\* ------------------------------------------------------------------ bounds
\* payload bytes of one page (postgres::utils::max_heap_tuple_size, scaled down)
MAX_HEAP_TUPLE_SIZE == 2
\* longest byte buffer handed to a write
MaxLen == 3
\* the relation is never extended beyond this many blocks
MaxBlocks == 8
\* pages a chain walk visits before it is taken to run forever
MaxWalk == 3
\* most bytes one segment file is given
MaxFile == 4
\* worker threads that share the clones of one ChannelDirectory
MaxThreads == 2
\* Directory calls the worker threads make in one run
MaxRequests == 2
\* backends that use the locks of one relation
MaxBackends == 3
\* identifiers in one ShouldDeleteCtids request, and how many there are
MaxCtids == 3
\* block numbers a serialized catalog entry can list and still fit a page
MaxEntryBlocks == 2
\* backends that run directory operations on one relation at the same time
MaxProcs == 2
\* segment files created where deletes and creates alternate
MaxSegments == 3
\* operations each backend calls where all direct operations run by step
MaxOps == 2

\* ------------------------------------------------------- program constants
METADATA_BLOCKNO == 0
SEGMENT_HANDLE_BLOCKNO == 1
INDEX_WRITER_LOCK_BLOCKNO == 2
TANTIVY_META_BLOCKNO == 3
TANTIVY_MANAGED_BLOCKNO == 4
\* pg_sys::InvalidBlockNumber, 0xFFFFFFFF, as the 32-bit pattern read signed
InvalidBlockNumber == -1
\* a block number that lies beyond the end of the relation
BadBlock == InvalidBlockNumber - 1

META_FILEPATH == "meta.json"
MANAGED_FILEPATH == ".managed.json"

Byte == {1, 2}
\* the serialized form of a catalog entry, as seen by a reader of raw bytes
HandleByte == 0

VARIABLES
    pages,        \* the relation: block b is pages[b + 1]
    fsm,          \* the free space map: blocks recorded free
    lastWritten,  \* per atomic path, the bytes of the latest atomic_write
    atomicOut,    \* the outcome of the latest atomic_read
    writer,       \* per segment path, the SegmentHandleWriter open_write made
    segWritten,   \* per segment path, the bytes handed to write so far
    segOut,       \* the outcome of the latest direct read_bytes
    nThreads,     \* how many worker threads there are
    worker,       \* per worker thread: where it is, what it holds
    requests,     \* every message sent on the request channel, in order
    taken,        \* how many of them the handler's receiver.iter() has yielded
    responses,    \* every message sent on the response channel, in order
    receivedBy,   \* the thread whose recv() took each response, in order
    handler,      \* the state of receive_blocking
    held,         \* the BlockingLocks that exist
    handled,      \* what the handler did with the request it took last
    unlocks,      \* every UnlockReleaseBuffer of a BlockingLock: the lock, the thread
    lwlock,       \* per lock page, the backend that holds its exclusive lock (0: none)
    backend,      \* per backend: the guards it has, the lock it waits for
    catalog,      \* the catalog entries created, in order (a record of the calls)
    opOut,        \* the latest catalog, delete or allocation call and its outcome
    busy,         \* the free pages another backend has locked
    proc,         \* per backend: the operation it is in, and where in it
    pageLock,     \* per block: the backends that hold its buffer lock
    deleted       \* the catalogued paths delete_with_stats was called for

storeVars == <<pages, fsm>>
atomicVars == <<lastWritten, atomicOut>>
segVars == <<writer, segWritten, segOut>>
bridgeVars == <<nThreads, worker, requests, taken, responses, receivedBy, handler, held,
                handled, unlocks>>
lockVars == <<lwlock, backend>>
catVars == <<catalog, opOut, busy>>
sideVars == <<lwlock, backend, catalog, opOut, busy>>
stepVars == <<proc, pageLock, deleted>>
vars == <<pages, fsm, lastWritten, atomicOut, writer, segWritten, segOut, nThreads, worker,
          requests, taken, responses, receivedBy, handler, held, handled, unlocks,
          lwlock, backend, catalog, opOut, busy, proc, pageLock, deleted>>

\* ------------------------------------------------------------------ bytes
RECURSIVE SeqsUpTo(_, _)
SeqsUpTo(S, n) ==
    IF n = 0 THEN {<<>>}
    ELSE LET shorter == SeqsUpTo(S, n - 1)
         IN shorter \cup {Append(s, x) : s \in {t \in shorter : Len(t) = n - 1}, x \in S}

Buffers == SeqsUpTo(Byte, MaxLen)

Min(a, b) == IF a < b THEN a ELSE b

\* data.chunks(MAX_HEAP_TUPLE_SIZE): no chunk at all for an empty buffer
Chunks(data) ==
    LET n == (Len(data) + MAX_HEAP_TUPLE_SIZE - 1) \div MAX_HEAP_TUPLE_SIZE
    IN [i \in 1..n |->
            SubSeq(data, (i - 1) * MAX_HEAP_TUPLE_SIZE + 1,
                   Min(i * MAX_HEAP_TUPLE_SIZE, Len(data)))]

\* ------------------------------------------------------------------ pages
\* A page: whether PageInit gave it a LinkedBlockSpecialData trailer, the
\* next_blockno stored there, its line items, and (block 0) the MetaPageData
\* that lies where the first line pointer would be.
DataItem(chunk) == [path |-> "", blocks |-> <<>>, total_bytes |-> 0, bytes |-> chunk]
HandleItem(path, blocks, total_bytes) ==
    [path |-> path, blocks |-> blocks, total_bytes |-> total_bytes, bytes |-> <<HandleByte>>]
IsHandle(item) == item.path # ""

\* PageInit zero-fills the page: a trailer's next_blockno starts as 0
PageInit(special_size) ==
    [special |-> special_size > 0, next |-> 0, items |-> <<>>,
     segment_handle_insert_blockno |-> 0]

PageOf(pgs, b) == pgs[b + 1]
ValidBlock(pgs, b) == b \in 0..(Len(pgs) - 1)

\* PageGetSpecialPointer(page).next_blockno.  A page initialised with
\* special size 0 has no trailer: the pointer is the end of the page and the
\* read is out of bounds, so it can yield any block number.
SpecialNext(pgs, b) ==
    IF PageOf(pgs, b).special
    THEN {PageOf(pgs, b).next}
    ELSE {InvalidBlockNumber, BadBlock} \cup (0..(Len(pgs) - 1))

\* (*special).next_blockno = nb; on a page without a trailer the store is
\* out of bounds and changes nothing of this relation
SetSpecialNext(pgs, b, nb) ==
    IF PageOf(pgs, b).special
    THEN [pgs EXCEPT ![b + 1].next = nb]
    ELSE pgs

\* the bytes PageGetItem(page, PageGetItemId(page, FirstOffsetNumber)) gives
\* with lp_len: nothing on a page that holds no item
FirstItemBytes(page) ==
    IF Len(page.items) = 0 THEN <<>> ELSE page.items[1].bytes

\* ---------------------------------------------------------- BufferCache
\* new_buffer that never consults the free space map
new_buffer_Extend(st, special_size) ==
    IF Len(st.pages) < MaxBlocks
    THEN {[pages |-> Append(st.pages, PageInit(special_size)), fsm |-> st.fsm,
           blockno |-> Len(st.pages)]}
    ELSE {}

\* new_buffer: a block of the free space map if there is one (it is not
\* PageIsNew, so it keeps the layout it had), else the relation is extended
\* by one zeroed page, which is initialised.
new_buffer(st, special_size) ==
    IF st.fsm # {}
    THEN {[pages |-> st.pages, fsm |-> st.fsm \ {b}, blockno |-> b] : b \in st.fsm}
    ELSE IF Len(st.pages) < MaxBlocks
    THEN {[pages |-> Append(st.pages, PageInit(special_size)), fsm |-> st.fsm,
           blockno |-> Len(st.pages)]}
    ELSE {}

\* create_metadata that leaves the catalog head's link as PageInit made it
create_metadata_ZeroLink ==
    << [PageInit(0) EXCEPT !.segment_handle_insert_blockno = SEGMENT_HANDLE_BLOCKNO],
       PageInit(1),
       PageInit(0),
       PageInit(1),
       PageInit(1) >>

\* create_metadata: blocks 0..4 of a new index
create_metadata ==
    << [PageInit(0) EXCEPT !.segment_handle_insert_blockno = SEGMENT_HANDLE_BLOCKNO],
       [PageInit(1) EXCEPT !.next = InvalidBlockNumber],
       PageInit(0),
       PageInit(1),
       PageInit(1) >>

\* ------------------------------------------------------ AtomicDirectory
\* one chunk into the page: PageAddItemExtended at FirstOffsetNumber on a
\* page without items, PageIndexTupleOverwrite otherwise.  A first line
\* pointer on block 0 lands on the MetaPageData.
PutChunk(pgs, b, chunk) ==
    LET page == PageOf(pgs, b)
        items == IF Len(page.items) = 0
                 THEN <<DataItem(chunk)>>
                 ELSE [page.items EXCEPT ![1] = DataItem(chunk)]
        clobbered == b = METADATA_BLOCKNO /\ Len(page.items) = 0
    IN [pgs EXCEPT ![b + 1] =
            [page EXCEPT !.items = items,
                         !.segment_handle_insert_blockno =
                            IF clobbered THEN BadBlock ELSE @]]

\* read_bytes: the chain walk from blockno, concatenating each page's first
\* item; the set of outcomes it can have
RECURSIVE read_chain(_, _, _, _)
read_chain(pgs, blockno, data, fuel) ==
    IF blockno = InvalidBlockNumber THEN {[kind |-> "Ok", data |-> data]}
    ELSE IF ~ValidBlock(pgs, blockno) THEN {[kind |-> "PgError", data |-> <<>>]}
    ELSE IF fuel = 0 THEN {[kind |-> "Endless", data |-> <<>>]}
    ELSE UNION {read_chain(pgs, nb, data \o FirstItemBytes(PageOf(pgs, blockno)), fuel - 1)
                    : nb \in SpecialNext(pgs, blockno)}

read_bytes(pgs, blockno) == read_chain(pgs, blockno, <<>>, MaxWalk)

\* write_bytes: chunk i (i > 1) goes to the page the current page's
\* next_blockno names, or to a new page when that is InvalidBlockNumber
RECURSIVE write_chunks(_, _, _, _)
write_chunks(st, cur, chunks, i) ==
    IF i > Len(chunks)
    THEN {[pages |-> st.pages, fsm |-> st.fsm, kind |-> "Ok"]}
    ELSE IF i = 1
    THEN write_chunks([st EXCEPT !.pages = PutChunk(st.pages, cur, chunks[1])],
                      cur, chunks, 2)
    ELSE UNION {
        IF nb = InvalidBlockNumber
        THEN UNION {write_chunks(
                        [pages |-> PutChunk(SetSpecialNext(nbuf.pages, cur, nbuf.blockno),
                                            nbuf.blockno, chunks[i]),
                         fsm |-> nbuf.fsm],
                        nbuf.blockno, chunks, i + 1)
                    : nbuf \in new_buffer(st, 1)}
        ELSE IF ~ValidBlock(st.pages, nb)
        THEN {[pages |-> st.pages, fsm |-> st.fsm, kind |-> "PgError"]}
        ELSE write_chunks([st EXCEPT !.pages = PutChunk(st.pages, nb, chunks[i])],
                          nb, chunks, i + 1)
        : nb \in SpecialNext(st.pages, cur)}

write_bytes(st, data, blockno) == write_chunks(st, blockno, Chunks(data), 1)

\* -------------------------------------------------------- page items
\* what an item takes of a page's MAX_HEAP_TUPLE_SIZE units: a data chunk its
\* bytes, a serialized catalog entry one unit, or more than a page when it
\* lists more than MaxEntryBlocks block numbers
ItemSize(item) ==
    IF IsHandle(item)
    THEN IF Len(item.blocks) > MaxEntryBlocks THEN MAX_HEAP_TUPLE_SIZE + 1 ELSE 1
    ELSE Len(item.bytes)

RECURSIVE ItemsSize(_)
ItemsSize(items) ==
    IF Len(items) = 0 THEN 0 ELSE ItemSize(Head(items)) + ItemsSize(Tail(items))

\* PageAddItemExtended(page, item, size, InvalidOffsetNumber, 0): the item is
\* appended if the page has room, else InvalidOffsetNumber (ok = FALSE)
PageAddItem(pgs, b, item) ==
    LET page == PageOf(pgs, b)
        fits == ItemsSize(page.items) + ItemSize(item) <= MAX_HEAP_TUPLE_SIZE
        clobbered == b = METADATA_BLOCKNO /\ Len(page.items) = 0
    IN [ok |-> fits,
        pages |-> IF fits
                  THEN [pgs EXCEPT ![b + 1] =
                          [page EXCEPT !.items = Append(@, item),
                                       !.segment_handle_insert_blockno =
                                          IF clobbered THEN BadBlock ELSE @]]
                  ELSE pgs]

\* ------------------------------------------------------- SegmentHandle
NoHandle == [path |-> "", blocks |-> <<>>, total_bytes |-> 0]
HandleOf(item) == [path |-> item.path, blocks |-> item.blocks, total_bytes |-> item.total_bytes]

\* the first item of the page that ends the scan: one that does not parse as
\* a SegmentHandle, or the one with the path looked for; 0 if there is none
ScanStop(items, path) ==
    LET hits == {k \in 1..Len(items) : ~IsHandle(items[k]) \/ items[k].path = path}
    IN IF hits = {} THEN 0 ELSE CHOOSE k \in hits : \A j \in hits : k <= j

\* get_buffer(InvalidBlockNumber, ..) is ReadBufferExtended(P_NEW): it extends
\* the relation by one zeroed page
ExtendByRead(pgs) == Append(pgs, PageInit(0))

\* SegmentHandle::open: the catalog chain from SEGMENT_HANDLE_BLOCKNO.  After
\* the last page the walk still calls get_buffer on the InvalidBlockNumber it
\* found, before the loop condition sees it.
RECURSIVE open_walk(_, _, _, _)
open_walk(pgs, blockno, path, fuel) ==
    IF fuel = 0 THEN {[kind |-> "Endless", handle |-> NoHandle, pages |-> pgs]}
    ELSE
    LET items == PageOf(pgs, blockno).items
        k == ScanStop(items, path)
    IN IF k # 0
       THEN IF IsHandle(items[k])
            THEN {[kind |-> "Some", handle |-> HandleOf(items[k]), pages |-> pgs]}
            ELSE {[kind |-> "Err", handle |-> NoHandle, pages |-> pgs]}
       ELSE UNION {
            IF nb = InvalidBlockNumber
            THEN IF Len(pgs) < MaxBlocks
                 THEN {[kind |-> "None", handle |-> NoHandle, pages |-> ExtendByRead(pgs)]}
                 ELSE {}
            ELSE IF ~ValidBlock(pgs, nb)
            THEN {[kind |-> "PgError", handle |-> NoHandle, pages |-> pgs]}
            ELSE open_walk(pgs, nb, path, fuel - 1)
            : nb \in SpecialNext(pgs, blockno)}

open(pgs, path) == open_walk(pgs, SEGMENT_HANDLE_BLOCKNO, path, MaxWalk)

\* SegmentHandle::create: the entry is added to the page the Metadata Page
\* names; if it has no room a new page is linked after it and becomes the
\* insert page
create(st, path, blocks, total_bytes) ==
    LET insert_blockno ==
            PageOf(st.pages, METADATA_BLOCKNO).segment_handle_insert_blockno
        item == HandleItem(path, blocks, total_bytes)
    IN IF ~ValidBlock(st.pages, insert_blockno)
       THEN {[pages |-> st.pages, fsm |-> st.fsm, kind |-> "PgError"]}
       ELSE LET added == PageAddItem(st.pages, insert_blockno, item)
            IN IF added.ok
               THEN {[pages |-> added.pages, fsm |-> st.fsm, kind |-> "Ok"]}
               ELSE {LET moved == [nbuf.pages EXCEPT
                                      ![METADATA_BLOCKNO + 1].segment_handle_insert_blockno =
                                          nbuf.blockno]
                         linked == SetSpecialNext(moved, insert_blockno, nbuf.blockno)
                         put == PageAddItem(linked, nbuf.blockno, item)
                     IN [pages |-> put.pages, fsm |-> nbuf.fsm,
                         kind |-> IF put.ok THEN "Ok" ELSE "Err"]
                        : nbuf \in new_buffer(st, 1)}

\* -------------------------------------------------- SegmentHandleWriter
NoWriter == [state |-> "none", path |-> "", data |-> <<>>, blocks |-> <<>>, total_bytes |-> 0]
SegmentHandleWriter_new(path) == [NoWriter EXCEPT !.state = "open", !.path = path]

\* one new page per chunk, the chunk its only item, the block numbers in
\* order; chunks from index i on
RECURSIVE write_pages(_, _, _, _)
write_pages(st, chunks, i, blocks) ==
    IF i > Len(chunks)
    THEN {[pages |-> st.pages, fsm |-> st.fsm, blocks |-> blocks]}
    ELSE UNION {write_pages(
                    [pages |-> PageAddItem(nbuf.pages, nbuf.blockno, DataItem(chunks[i])).pages,
                     fsm |-> nbuf.fsm],
                    chunks, i + 1, Append(blocks, nbuf.blockno))
                : nbuf \in new_buffer(st, 0)}

\* the full pages of the buffer, which flush writes before its assertion
\* meets a shorter read
FullChunks(data) ==
    LET chunks == Chunks(data)
    IN SubSeq(chunks, 1, Len(data) \div MAX_HEAP_TUPLE_SIZE)

\* flush: does nothing below one page of data; else it writes the buffer
\* from its start in full pages and asserts that every read fills a page.
\* The buffer is kept.
flush(st, w) ==
    IF Len(w.data) < MAX_HEAP_TUPLE_SIZE
    THEN {[pages |-> st.pages, fsm |-> st.fsm, writer |-> w]}
    ELSE {[pages |-> out.pages, fsm |-> out.fsm,
           writer |-> [w EXCEPT
               !.blocks = out.blocks,
               !.total_bytes = @ + MAX_HEAP_TUPLE_SIZE * (Len(w.data) \div MAX_HEAP_TUPLE_SIZE),
               !.state = IF Len(w.data) % MAX_HEAP_TUPLE_SIZE = 0 THEN "open" ELSE "panicked"]]
            : out \in write_pages(st, FullChunks(w.data), 1, w.blocks)}

\* terminate_ref: the whole buffer again, from its start, then the catalog
\* entry; what create returns is dropped
terminate_ref(st, w) ==
    UNION {
        {[pages |-> made.pages, fsm |-> made.fsm, created |-> made.kind,
          writer |-> [w EXCEPT !.blocks = out.blocks,
                               !.total_bytes = @ + Len(w.data),
                               !.state = IF made.kind = "PgError" THEN "panicked"
                                         ELSE "terminated"]]
            : made \in create([pages |-> out.pages, fsm |-> out.fsm], w.path,
                              out.blocks, w.total_bytes + Len(w.data))}
        : out \in write_pages(st, Chunks(w.data), 1, w.blocks)}

\* -------------------------------------------------- SegmentHandleReader
\* a byte read from beyond the item's end: whatever the page holds there,
\* never a byte that a write stored
StrayByte == 0

\* from_raw_parts(item.add(slice_start), slice_len) on the page's first item
RawSlice(bytes, slice_start, slice_len) ==
    [k \in 1..slice_len |->
        IF slice_start + k <= Len(bytes) THEN bytes[slice_start + k] ELSE StrayByte]

\* the loop body of read_bytes for the block indexes i..last (from 0) of the
\* handle; blocks[i] panics beyond the vector, slice_end - slice_start on
\* underflow
RECURSIVE read_blocks(_, _, _, _, _, _, _)
read_blocks(pgs, blocks, i, last, start, end, data) ==
    LET start_block == start \div MAX_HEAP_TUPLE_SIZE
        end_block == end \div MAX_HEAP_TUPLE_SIZE
        slice_start == IF i = start_block THEN start % MAX_HEAP_TUPLE_SIZE ELSE 0
        slice_end == IF i = end_block THEN end % MAX_HEAP_TUPLE_SIZE ELSE MAX_HEAP_TUPLE_SIZE
    IN IF i > last THEN [kind |-> "Ok", data |-> data]
       ELSE IF i >= Len(blocks) THEN [kind |-> "Panic", data |-> <<>>]
       ELSE IF ~ValidBlock(pgs, blocks[i + 1]) THEN [kind |-> "PgError", data |-> <<>>]
       ELSE IF slice_end < slice_start THEN [kind |-> "Panic", data |-> <<>>]
       ELSE read_blocks(pgs, blocks, i + 1, last, start, end,
                        data \o RawSlice(FirstItemBytes(PageOf(pgs, blocks[i + 1])),
                                         slice_start, slice_end - slice_start))

\* read_bytes that takes range.end as it is given
SegmentHandleReader_read_bytes_Unclamped(pgs, handle, range_start, range_end) ==
    LET start == range_start
        end == range_end
        start_block == start \div MAX_HEAP_TUPLE_SIZE
        end_block == end \div MAX_HEAP_TUPLE_SIZE
    IN IF start >= end THEN [kind |-> "InvalidInput", data |-> <<>>]
       ELSE read_blocks(pgs, handle.blocks, start_block,
                        Min(end_block, Len(handle.blocks) - 1), start, end, <<>>)

\* SegmentHandleReader::read_bytes: end clamped to len(), start >= end an
\* InvalidInput error, then blocks.iter().take(end_block + 1).skip(start_block)
SegmentHandleReader_read_bytes(pgs, handle, range_start, range_end) ==
    LET start == range_start
        end == Min(range_end, handle.total_bytes)
        start_block == start \div MAX_HEAP_TUPLE_SIZE
        end_block == end \div MAX_HEAP_TUPLE_SIZE
    IN IF start >= end THEN [kind |-> "InvalidInput", data |-> <<>>]
       ELSE read_blocks(pgs, handle.blocks, start_block,
                        Min(end_block, Len(handle.blocks) - 1), start, end, <<>>)

\* BlockingDirectory::get_file_handle then read_bytes
get_file_handle_read(pgs, path, range_start, range_end) ==
    {[pages |-> o.pages,
      res |-> IF o.kind = "Some"
              THEN SegmentHandleReader_read_bytes(o.pages, o.handle, range_start, range_end)
              ELSE [kind |-> IF o.kind = "None" THEN "Panic" ELSE o.kind, data |-> <<>>]]
        : o \in open(pgs, path)}

\* ------------------------------------------------------ FileHandleReader
\* FileHandleReader::read_bytes: the range as given, every block index of
\* start_block..=end_block
FileHandleReader_read_bytes(pgs, handle, range_start, range_end) ==
    read_blocks(pgs, handle.blocks, range_start \div MAX_HEAP_TUPLE_SIZE,
                range_end \div MAX_HEAP_TUPLE_SIZE, range_start, range_end, <<>>)

\* -------------------------------------------------------------- IoWriter
LockSuffix(path) == path \in {"a.lock"}

\* IoWriter::new asserts that the path is no .lock file; write appends to the
\* writer's own buffer
IoWriter_new(path) ==
    [state |-> IF LockSuffix(path) THEN "panicked" ELSE "open", path |-> path, data |-> <<>>]
IoWriter_write(w, data) == [w EXCEPT !.data = @ \o data]

\* IoWriter::terminate_ref: one new page per chunk, then the catalog entry;
\* what create returns is dropped
IoWriter_terminate_ref(st, w) ==
    UNION {
        {[pages |-> made.pages, fsm |-> made.fsm, created |-> made.kind,
          kind |-> IF made.kind = "PgError" THEN "PgError" ELSE "Ok"]
            : made \in create([pages |-> out.pages, fsm |-> out.fsm], w.path,
                              out.blocks, Len(w.data))}
        : out \in write_pages(st, Chunks(w.data), 1, <<>>)}

\* ----------------------------------------------------- delete_with_stats
\* PageIndexTupleDelete(page, offsetno) for offsetno in 1..=max_offset: each
\* delete renumbers what is left, so the loop leaves every second item and
\* raises an error once offsetno is beyond them
RECURSIVE delete_items(_, _, _)
delete_items(items, offsetno, max_offset) ==
    IF offsetno > max_offset THEN [ok |-> TRUE, items |-> items]
    ELSE IF offsetno > Len(items) THEN [ok |-> FALSE, items |-> items]
    ELSE delete_items(SubSeq(items, 1, offsetno - 1) \o SubSeq(items, offsetno + 1, Len(items)),
                      offsetno + 1, max_offset)

RECURSIVE delete_blocks(_, _, _, _)
delete_blocks(st, blocknos, i, pages_deleted) ==
    IF i > Len(blocknos)
    THEN [pages |-> st.pages, fsm |-> st.fsm, kind |-> "Ok", pages_deleted |-> pages_deleted]
    ELSE IF ~ValidBlock(st.pages, blocknos[i])
    THEN [pages |-> st.pages, fsm |-> st.fsm, kind |-> "PgError", pages_deleted |-> pages_deleted]
    ELSE LET page == PageOf(st.pages, blocknos[i])
             del == delete_items(page.items, 1, Len(page.items))
             pgs == [st.pages EXCEPT ![blocknos[i] + 1].items = del.items]
         IN IF ~del.ok
            THEN [pages |-> pgs, fsm |-> st.fsm, kind |-> "PgError",
                  pages_deleted |-> pages_deleted]
            ELSE delete_blocks([pages |-> pgs, fsm |-> st.fsm \cup {blocknos[i]}],
                               blocknos, i + 1, pages_deleted + 1)

\* delete_with_stats: the blocks of the catalogued handle are emptied and
\* recorded free; the catalog entry stays.  open(..).unwrap() panics on Err.
delete_with_stats(st, path) ==
    {IF o.kind = "Some"
     THEN delete_blocks([pages |-> o.pages, fsm |-> st.fsm], o.handle.blocks, 1, 0)
     ELSE [pages |-> o.pages, fsm |-> st.fsm,
           kind |-> IF o.kind = "None" THEN "Ok"
                    ELSE IF o.kind = "Err" THEN "Panic" ELSE o.kind,
           pages_deleted |-> 0]
        : o \in open(st.pages, path)}

\* ---------------------------------------------------------- BlockingLock
INDEX_WRITER_LOCK == "INDEX_WRITER_LOCK"
META_LOCK == "META_LOCK"
MANAGED_LOCK == "MANAGED_LOCK"
KnownLocks == {META_LOCK, MANAGED_LOCK, INDEX_WRITER_LOCK}
OtherLock == "other.lock"

\* an unknown lock name taken for the index-writer lock
acquire_blocking_lock_Fallback(heldLocks, lock) ==
    IF INDEX_WRITER_LOCK \in heldLocks /\ lock \notin KnownLocks \ {INDEX_WRITER_LOCK}
    THEN [kind |-> "Blocked", held |-> heldLocks]
    ELSE IF lock \in heldLocks THEN [kind |-> "Blocked", held |-> heldLocks]
    ELSE [kind |-> "Ok",
          held |-> heldLocks \cup {IF lock \in KnownLocks THEN lock ELSE INDEX_WRITER_LOCK}]

\* the page locked with BUFFER_LOCK_SHARE: no acquirer waits
acquire_blocking_lock_Shared(heldLocks, lock) ==
    IF lock \notin KnownLocks THEN [kind |-> "Err", held |-> heldLocks]
    ELSE [kind |-> "Ok", held |-> heldLocks \cup {lock}]

\* acquire_blocking_lock: an unknown lock bails; a known one takes the
\* exclusive buffer lock of its block, which waits while the lock is held
acquire_blocking_lock(heldLocks, lock) ==
    IF lock \notin KnownLocks THEN [kind |-> "Err", held |-> heldLocks]
    ELSE IF lock \in heldLocks THEN [kind |-> "Blocked", held |-> heldLocks]
    ELSE [kind |-> "Ok", held |-> heldLocks \cup {lock}]

\* BlockingLock::drop: UnlockReleaseBuffer
BlockingLock_drop(heldLocks, lock) == heldLocks \ {lock}

\* ---------------------------------------------------- BlockingDirectory
AtomicPaths == {META_FILEPATH, MANAGED_FILEPATH}
OtherPath == "other.json"

SlotOf(path) ==
    IF path = META_FILEPATH THEN TANTIVY_META_BLOCKNO ELSE TANTIVY_MANAGED_BLOCKNO

\* atomic_write: the outcomes, each with the storage it leaves
atomic_write(st, path, data) ==
    IF path \in AtomicPaths
    THEN write_bytes(st, data, SlotOf(path))
    ELSE {[pages |-> st.pages, fsm |-> st.fsm, kind |-> "Err"]}

\* atomic_read: the outcomes; empty data is reported as FileDoesNotExist
atomic_read(pgs, path) ==
    IF path \in AtomicPaths
    THEN {IF r.kind = "Ok" /\ r.data = <<>>
          THEN [kind |-> "FileDoesNotExist", data |-> <<>>]
          ELSE r
            : r \in read_bytes(pgs, SlotOf(path))}
    ELSE {[kind |-> "FileDoesNotExist", data |-> <<>>]}

\* ------------------------------------------------------------- atomic spec
NoData == <<0>>
NoRead == [path |-> "", kind |-> "", data |-> <<>>]

InitStore ==
    /\ pages = create_metadata
    /\ fsm = {}

SegPaths == {"a.store", "b.store"}
NoSegRead == [path |-> "", start |-> 0, end |-> 0, kind |-> "", data |-> <<>>]

InitAtomicIdle ==
    /\ lastWritten = [p \in AtomicPaths |-> NoData]
    /\ atomicOut = NoRead

InitSegIdle ==
    /\ writer = [p \in SegPaths |-> NoWriter]
    /\ segWritten = [p \in SegPaths |-> <<>>]
    /\ segOut = NoSegRead

NoRequest ==
    [kind |-> "", from |-> 0, path |-> "", data |-> <<>>, start |-> 0, end |-> 0,
     handle |-> NoHandle, lock |-> "", ctids |-> {}]
NoResponse ==
    [kind |-> "", id |-> 0, data |-> <<>>, some |-> FALSE, handle |-> NoHandle,
     lock |-> "", ctids |-> {}]
NoWorker == [pc |-> "none", op |-> "", handle |-> NoHandle, lock |-> "", out |-> ""]
NoHandled == [id |-> 0, request |-> NoRequest, kind |-> "", data |-> <<>>]

InitBridgeIdle ==
    /\ nThreads = 0
    /\ worker = [t \in 1..MaxThreads |-> NoWorker]
    /\ requests = <<>>
    /\ taken = 0
    /\ responses = <<>>
    /\ receivedBy = <<>>
    /\ handler = "none"
    /\ held = {}
    /\ handled = NoHandled
    /\ unlocks = <<>>

Backends == 1..MaxBackends
NoBackend == [guards |-> {}, waits |-> "", out |-> ""]
NoOp == [op |-> "", path |-> "", kind |-> "", handle |-> NoHandle, size |-> 0,
         pages_deleted |-> 0, expected |-> {}, reclaimed |-> {}, trace |-> <<>>,
         blockno |-> InvalidBlockNumber, locked |-> {}, events |-> <<>>,
         created |-> ""]

Procs == 1..MaxProcs
\* a backend outside any operation
NoProc == [op |-> "", pc |-> "idle", path |-> "", cur |-> InvalidBlockNumber,
           data |-> <<>>, i |-> 0, blocks |-> <<>>, kind |-> "", seen |-> <<>>,
           cache |-> "null", done |-> 0]
\* a buffer content lock: the backend that holds it exclusively (0: none)
\* and the backends that share it
NoLock == [x |-> 0, s |-> {}]

InitSideIdle ==
    /\ lwlock = [l \in KnownLocks |-> 0]
    /\ backend = [b \in Backends |-> NoBackend]
    /\ catalog = <<>>
    /\ opOut = NoOp
    /\ busy = {}
    /\ proc = [p \in Procs |-> NoProc]
    /\ pageLock = [b \in 0..(MaxBlocks - 1) |-> NoLock]
    /\ deleted = {}

InitAtomic ==
    /\ InitStore
    /\ InitAtomicIdle
    /\ InitSegIdle
    /\ InitBridgeIdle
    /\ InitSideIdle

AtomicWrite(path, data) ==
    \E out \in atomic_write([pages |-> pages, fsm |-> fsm], path, data) :
        /\ pages' = out.pages
        /\ fsm' = out.fsm
        /\ lastWritten' = IF out.kind = "Ok" /\ path \in AtomicPaths
                          THEN [lastWritten EXCEPT ![path] = data]
                          ELSE lastWritten
        /\ atomicOut' = NoRead
        /\ UNCHANGED segVars
        /\ UNCHANGED bridgeVars
        /\ UNCHANGED sideVars
        /\ UNCHANGED stepVars

AtomicRead(path) ==
    \E out \in atomic_read(pages, path) :
        /\ atomicOut' = [path |-> path, kind |-> out.kind, data |-> out.data]
        /\ UNCHANGED <<pages, fsm, lastWritten>>
        /\ UNCHANGED segVars
        /\ UNCHANGED bridgeVars
        /\ UNCHANGED sideVars
        /\ UNCHANGED stepVars

NextAtomic ==
    \/ \E path \in AtomicPaths \cup {OtherPath}, data \in Buffers : AtomicWrite(path, data)
    \/ \E path \in AtomicPaths \cup {OtherPath} : AtomicRead(path)

SpecAtomic == InitAtomic /\ [][NextAtomic]_vars

\* an atomic_read of a slot that has been written has completed
AtomicReadDone ==
    /\ atomicOut.path \in AtomicPaths
    /\ lastWritten[atomicOut.path] # NoData

\* C1: an atomic slot is single-version: whatever was written before, an
\* atomic_read yields the bytes of the most recent atomic_write to the slot
\* and nothing of an earlier value.
C1_SingleVersion ==
    AtomicReadDone =>
        /\ atomicOut.kind \in {"Ok", "FileDoesNotExist"}
        /\ atomicOut.data = lastWritten[atomicOut.path]

\* C2: round trip: atomic_write(path, B) followed by atomic_read(path)
\* returns Ok(B) for every buffer B, the empty one included.
C2_AtomicRoundTrip ==
    AtomicReadDone =>
        atomicOut = [path |-> atomicOut.path, kind |-> "Ok",
                     data |-> lastWritten[atomicOut.path]]

\* C20: an atomic_write to one of the two slots leaves what atomic_read
\* gives for the other slot as it was; an atomic_write to any other path
\* fails and leaves the storage, and so both slots, unchanged, and an
\* atomic_read of any other path is an error.
C20_AtomicDispatch ==
    /\ [][\A path \in AtomicPaths \cup {OtherPath}, data \in Buffers :
            AtomicWrite(path, data) =>
                IF path \in AtomicPaths
                THEN \A q \in AtomicPaths \ {path} :
                        atomic_read(pages', q) = atomic_read(pages, q)
                ELSE /\ \A out \in atomic_write([pages |-> pages, fsm |-> fsm], path, data) :
                            out.kind = "Err"
                     /\ pages' = pages]_vars
    /\ [](atomicOut.path = OtherPath => atomicOut.kind = "FileDoesNotExist")

\* ------------------------------------------------------------ segment spec
\* BlockingDirectory::open_write: a new writer for a path not written before,
\* one file being written at a time
OpenWrite(path) ==
    /\ \A p \in SegPaths : writer[p].state # "open"
    /\ writer[path].state = "none"
    /\ writer' = [writer EXCEPT ![path] = SegmentHandleWriter_new(path)]
    /\ segOut' = NoSegRead
    /\ UNCHANGED <<pages, fsm, segWritten>>
    /\ UNCHANGED <<atomicVars, stepVars>>
    /\ UNCHANGED bridgeVars
    /\ UNCHANGED sideVars

\* write: the bytes are appended to the writer's buffer
Write(path, data) ==
    /\ writer[path].state = "open"
    /\ Len(writer[path].data) + Len(data) <= MaxFile
    /\ writer' = [writer EXCEPT ![path].data = @ \o data]
    /\ segWritten' = [segWritten EXCEPT ![path] = @ \o data]
    /\ segOut' = NoSegRead
    /\ UNCHANGED <<pages, fsm>>
    /\ UNCHANGED <<atomicVars, stepVars>>
    /\ UNCHANGED bridgeVars
    /\ UNCHANGED sideVars

Flush(path) ==
    /\ writer[path].state = "open"
    /\ \E out \in flush([pages |-> pages, fsm |-> fsm], writer[path]) :
        /\ pages' = out.pages
        /\ fsm' = out.fsm
        /\ writer' = [writer EXCEPT ![path] = out.writer]
    /\ segOut' = NoSegRead
    /\ UNCHANGED segWritten
    /\ UNCHANGED <<atomicVars, stepVars>>
    /\ UNCHANGED bridgeVars
    /\ UNCHANGED sideVars

\* terminate on the BufWriter open_write returns: flush, then terminate_ref
\* unless the flush panicked
Terminate(path) ==
    /\ writer[path].state = "open"
    /\ \E flushed \in flush([pages |-> pages, fsm |-> fsm], writer[path]) :
        IF flushed.writer.state = "panicked"
        THEN /\ pages' = flushed.pages
             /\ fsm' = flushed.fsm
             /\ writer' = [writer EXCEPT ![path] = flushed.writer]
        ELSE \E out \in terminate_ref([pages |-> flushed.pages, fsm |-> flushed.fsm],
                                      flushed.writer) :
             /\ pages' = out.pages
             /\ fsm' = out.fsm
             /\ writer' = [writer EXCEPT ![path] = out.writer]
    /\ segOut' = NoSegRead
    /\ UNCHANGED segWritten
    /\ UNCHANGED <<atomicVars, stepVars>>
    /\ UNCHANGED bridgeVars
    /\ UNCHANGED sideVars

\* get_file_handle(path) and read_bytes(start..end) on the handle it returns
ReadBytes(path, start, end) ==
    /\ \E out \in get_file_handle_read(pages, path, start, end) :
        /\ pages' = out.pages
        /\ segOut' = [path |-> path, start |-> start, end |-> end,
                      kind |-> out.res.kind, data |-> out.res.data]
    /\ UNCHANGED <<fsm, writer, segWritten>>
    /\ UNCHANGED <<atomicVars, stepVars>>
    /\ UNCHANGED bridgeVars
    /\ UNCHANGED sideVars

InitSegment ==
    /\ InitStore
    /\ InitAtomicIdle
    /\ InitSegIdle
    /\ InitBridgeIdle
    /\ InitSideIdle

NextSegment ==
    \/ \E path \in SegPaths : OpenWrite(path)
    \/ \E path \in SegPaths, data \in Buffers : Write(path, data)
    \/ \E path \in SegPaths : Flush(path)
    \/ \E path \in SegPaths : Terminate(path)
    \/ \E path \in SegPaths, start \in 0..MaxFile :
        \E end \in start..(MaxFile + 1) : ReadBytes(path, start, end)

SpecSegment == InitSegment /\ [][NextSegment]_vars

\* the outcomes of looking path up in the catalog and reading the whole file
WholeRead(path) ==
    {[kind |-> o.kind, handle |-> o.handle,
      res |-> SegmentHandleReader_read_bytes(o.pages, o.handle, 0, o.handle.total_bytes)]
        : o \in open(pages, path)}

\* C3: a file written through open_write's writer as d1, .., dk, flushes
\* interleaved, and terminated, has a catalog entry whose total_bytes is the
\* sum of the lengths and whose blocks are one per page-sized chunk, and a read
\* of the whole file returns d1 .. dk concatenated.
C3_SegmentRoundTrip ==
    \A path \in SegPaths :
        writer[path].state = "terminated" =>
            \A o \in WholeRead(path) :
                /\ o.kind = "Some"
                /\ o.handle.total_bytes = Len(segWritten[path])
                /\ Len(o.handle.blocks) = Len(Chunks(segWritten[path]))
                /\ segWritten[path] # <<>> =>
                        o.res = [kind |-> "Ok", data |-> segWritten[path]]

\* C17: for a terminated segment whose written content has
\* length L, a read_bytes(start..end) with 0 <= start <= end <= L returns Ok
\* with the bytes start..end of the written content, wherever the range lies
\* with respect to the page boundaries.
C17_PartialRead ==
    (/\ segOut.path \in SegPaths
     /\ writer[segOut.path].state = "terminated"
     /\ segOut.start <= segOut.end
     /\ segOut.end <= Len(segWritten[segOut.path])) =>
        /\ segOut.kind = "Ok"
        /\ segOut.data = SubSeq(segWritten[segOut.path], segOut.start + 1, segOut.end)

\* C18: for a catalogued segment of recorded length L, read_bytes with
\* end > L gives what it gives with end = L, and a range whose start is not
\* below the clamped end gives an InvalidInput error, empty, whatever the
\* pages hold (none is read).
C18_RangeClamping ==
    \A path \in SegPaths :
        \A o \in open(pages, path) :
            o.kind = "Some" =>
                LET L == o.handle.total_bytes
                IN \A start \in 0..(MaxFile + 1), end \in 0..(MaxFile + 2) :
                    /\ end > L =>
                        SegmentHandleReader_read_bytes(o.pages, o.handle, start, end)
                            = SegmentHandleReader_read_bytes(o.pages, o.handle, start, L)
                    /\ start >= Min(end, L) =>
                        /\ SegmentHandleReader_read_bytes(o.pages, o.handle, start, end)
                                = [kind |-> "InvalidInput", data |-> <<>>]
                        /\ SegmentHandleReader_read_bytes(<<>>, o.handle, start, end)
                                = [kind |-> "InvalidInput", data |-> <<>>]

\* a read whose range was not empty as given has ended in InvalidInput: its
\* end was clamped to the recorded length, at or below its start
C18_Witness ==
    /\ segOut.path \in SegPaths
    /\ writer[segOut.path].state = "terminated"
    /\ segOut.kind = "InvalidInput"
    /\ segOut.start < segOut.end
    /\ segOut.start > 0

\* ----------------------------------------------------- acquire_lock, backends
LockNames == KnownLocks \cup {OtherLock}

\* the locks whose page some backend has locked exclusively
LockedPages(lw) == {l \in KnownLocks : lw[l] # 0}

\* BlockingDirectory::acquire_lock by backend b: an unknown lock fails the
\* expect; otherwise LockBuffer(BUFFER_LOCK_EXCLUSIVE) returns at once if no
\* backend holds the page's lock and waits if one does, b itself included
AcquireLock(b, lock) ==
    /\ backend[b].waits = ""
    /\ backend[b].out # "Panic"
    /\ LET got == acquire_blocking_lock(LockedPages(lwlock), lock)
       IN /\ lwlock' = IF got.kind = "Ok" THEN [lwlock EXCEPT ![lock] = b]
                       ELSE IF got.kind = "Err"
                       THEN [l \in KnownLocks |-> IF lwlock[l] = b THEN 0 ELSE lwlock[l]]
                       ELSE lwlock
          /\ backend' = [backend EXCEPT ![b] =
                CASE got.kind = "Ok" -> [@ EXCEPT !.guards = @ \cup {lock}, !.out = "Ok"]
                  [] got.kind = "Blocked" -> [@ EXCEPT !.waits = lock]
                  [] got.kind = "Err" -> [@ EXCEPT !.guards = {}, !.out = "Panic"]]
    /\ UNCHANGED <<catalog, opOut, busy>>
    /\ UNCHANGED <<storeVars, atomicVars, stepVars, segVars, bridgeVars>>

\* the LockBuffer a backend waits in returns once the page's lock is free
LockGranted(b) ==
    /\ backend[b].waits # ""
    /\ LET lock == backend[b].waits
           got == acquire_blocking_lock(LockedPages(lwlock), lock)
       IN /\ got.kind = "Ok"
          /\ lwlock' = [lwlock EXCEPT ![lock] = b]
          /\ backend' = [backend EXCEPT ![b] =
                [@ EXCEPT !.guards = @ \cup {lock}, !.waits = "", !.out = "Waited"]]
    /\ UNCHANGED <<catalog, opOut, busy>>
    /\ UNCHANGED <<storeVars, atomicVars, stepVars, segVars, bridgeVars>>

\* the guard is dropped: BlockingLock::drop, UnlockReleaseBuffer
DropGuard(b, lock) ==
    /\ backend[b].waits = ""
    /\ lock \in backend[b].guards
    /\ lwlock' = [l \in KnownLocks |->
                    IF l \in BlockingLock_drop(LockedPages(lwlock), lock)
                    THEN lwlock[l] ELSE 0]
    /\ backend' = [backend EXCEPT ![b].guards = @ \ {lock}]
    /\ UNCHANGED <<catalog, opOut, busy>>
    /\ UNCHANGED <<storeVars, atomicVars, stepVars, segVars, bridgeVars>>

InitLock ==
    /\ InitStore
    /\ InitAtomicIdle
    /\ InitSegIdle
    /\ InitBridgeIdle
    /\ InitSideIdle

NextLock ==
    \/ \E b \in Backends, lock \in LockNames : AcquireLock(b, lock)
    \/ \E b \in Backends : LockGranted(b)
    \/ \E b \in Backends, lock \in KnownLocks : DropGuard(b, lock)

SpecLock == InitLock /\ [][NextLock]_vars

\* the backends that hold a guard of the lock
GuardHolders(lock) == {b \in Backends : lock \in backend[b].guards}

\* C11: while a backend holds the guard acquire_lock(L) returned, no other
\* backend's acquire_lock(L) returns, so at most one backend holds a guard of
\* L; and when a guard of L is dropped the page lock of L is free, so that a
\* backend waiting for L can proceed.
C11_LockMutualExclusion ==
    /\ [](\A lock \in KnownLocks : Cardinality(GuardHolders(lock)) <= 1)
    /\ [][\A b \in Backends, lock \in KnownLocks :
            (lock \in backend[b].guards /\ lock \notin backend'[b].guards) =>
                /\ lwlock'[lock] = 0
                /\ acquire_blocking_lock(LockedPages(lwlock'), lock).kind = "Ok"]_vars

\* a backend that had to wait for a lock another backend held has its guard
C11_Witness ==
    \E b \in Backends, lock \in KnownLocks :
        /\ backend[b].out = "Waited"
        /\ lock \in backend[b].guards
        /\ \E w \in Backends : backend[w].waits = lock

\* C22: acquire_lock with a lock name that is none of the three known ones
\* ends in a panic: the backend gets no guard, no page that was unlocked
\* becomes locked, and no backend ever holds a guard of such a name.
C22_UnknownLockFatal ==
    /\ [][\A b \in Backends, lock \in LockNames \ KnownLocks :
            AcquireLock(b, lock) =>
                /\ backend'[b].out = "Panic"
                /\ backend'[b].guards = {}
                /\ backend'[b].waits = ""
                /\ LockedPages(lwlock') \subseteq LockedPages(lwlock)]_vars
    /\ [](\A b \in Backends : backend[b].guards \subseteq KnownLocks)

\* a backend has asked for an unknown lock while another backend holds a
\* guard
C22_Witness ==
    \E b, c \in Backends :
        /\ backend[b].out = "Panic"
        /\ backend[c].guards # {}

\* ------------------------------------------------------------ catalog spec
Range(seq) == {seq[i] : i \in 1..Len(seq)}

\* the paths of the segment files, in the order they are created
CatPathSeq == <<"a.store", "b.store", "c.store", "d.store", "e.store">>
CatPaths == Range(CatPathSeq)
\* a file's bytes: none, or less than a page
CatData == {<<>>, <<1>>}

\* what was created for path, NoHandle if nothing was
Created(path) ==
    IF \E i \in 1..Len(catalog) : catalog[i].path = path
    THEN catalog[CHOOSE i \in 1..Len(catalog) : catalog[i].path = path]
    ELSE NoHandle

\* the allocations of a terminate, in order: the data pages, then the
\* catalog page if the entry made the catalog overflow
Allocated(before, after, blocks) ==
    LET was == PageOf(before, METADATA_BLOCKNO).segment_handle_insert_blockno
        is == PageOf(after, METADATA_BLOCKNO).segment_handle_insert_blockno
    IN IF was = is THEN blocks ELSE Append(blocks, is)

\* a segment file is written through open_write and terminated: its pages
\* are allocated and SegmentHandle::create adds its entry to the catalog
Create(data) ==
    /\ Len(catalog) < Len(CatPathSeq)
    /\ LET path == CatPathSeq[Len(catalog) + 1]
           w == [SegmentHandleWriter_new(path) EXCEPT !.data = data]
       IN \E out \in terminate_ref([pages |-> pages, fsm |-> fsm], w) :
            LET trace == Allocated(pages, out.pages, out.writer.blocks)
            IN /\ pages' = out.pages
               /\ fsm' = out.fsm
               /\ catalog' = IF out.writer.state = "terminated"
                             THEN Append(catalog, [path |-> path,
                                                   blocks |-> out.writer.blocks,
                                                   total_bytes |-> out.writer.total_bytes])
                             ELSE catalog
               /\ opOut' = [NoOp EXCEPT !.op = "create", !.path = path,
                                        !.kind = out.writer.state,
                                        !.size = Len(pages),
                                        !.expected = opOut.reclaimed,
                                        !.reclaimed = opOut.reclaimed \ Range(trace),
                                        !.trace = trace]
    /\ UNCHANGED <<lwlock, backend, busy>>
    /\ UNCHANGED <<atomicVars, stepVars, segVars, bridgeVars>>

\* SegmentHandle::open(path)
Open(path) ==
    /\ \E o \in open(pages, path) :
        /\ pages' = o.pages
        /\ opOut' = [NoOp EXCEPT !.op = "open", !.path = path, !.kind = o.kind,
                                 !.handle = o.handle, !.size = Len(pages),
                                 !.reclaimed = opOut.reclaimed]
    /\ UNCHANGED <<fsm, catalog>>
    /\ UNCHANGED <<lwlock, backend, busy>>
    /\ UNCHANGED <<atomicVars, stepVars, segVars, bridgeVars>>

\* BlockingDirectory::delete_with_stats(path)
Delete(path) ==
    /\ \E d \in delete_with_stats([pages |-> pages, fsm |-> fsm], path) :
        /\ pages' = d.pages
        /\ fsm' = d.fsm
        /\ opOut' = [NoOp EXCEPT !.op = "delete", !.path = path, !.kind = d.kind,
                                 !.handle = Created(path), !.size = Len(pages),
                                 !.pages_deleted = d.pages_deleted,
                                 !.reclaimed = opOut.reclaimed \cup (d.fsm \ fsm)]
    /\ UNCHANGED catalog
    /\ UNCHANGED <<lwlock, backend, busy>>
    /\ UNCHANGED <<atomicVars, stepVars, segVars, bridgeVars>>

\* BufferCache::new_buffer(special_size), by any caller
NewBuffer(special_size) ==
    /\ \E nbuf \in new_buffer([pages |-> pages, fsm |-> fsm], special_size) :
        /\ pages' = nbuf.pages
        /\ fsm' = nbuf.fsm
        /\ opOut' = [NoOp EXCEPT !.op = "new_buffer", !.size = Len(pages),
                                 !.expected = opOut.reclaimed,
                                 !.reclaimed = opOut.reclaimed \ {nbuf.blockno},
                                 !.trace = <<nbuf.blockno>>]
    /\ UNCHANGED catalog
    /\ UNCHANGED <<lwlock, backend, busy>>
    /\ UNCHANGED <<atomicVars, stepVars, segVars, bridgeVars>>

\* the paths created so far and one that has not been
KnownPaths == {CatPathSeq[i] : i \in 1..Min(Len(catalog) + 1, Len(CatPathSeq))}

InitCatalog ==
    /\ InitStore
    /\ InitAtomicIdle
    /\ InitSegIdle
    /\ InitBridgeIdle
    /\ InitSideIdle

NextCatalog ==
    \/ \E data \in CatData : Create(data)
    \/ \E path \in KnownPaths : Open(path)
    \/ \E path \in KnownPaths : Delete(path)
    \/ \E special_size \in {0, 1} : NewBuffer(special_size)

SpecCatalog == InitCatalog /\ [][NextCatalog]_vars

\* what looking an entry's path up gives: the kinds and handles
Lookup(path) == {[kind |-> o.kind, handle |-> o.handle] : o \in open(pages, path)}

\* C13: of two entries created one after the other under different paths,
\* open of either path returns exactly that entry's blocks and length,
\* whatever else the catalog holds.
C13_CatalogLookup ==
    \A i, j \in 1..Len(catalog) :
        i < j =>
            /\ Lookup(catalog[i].path) = {[kind |-> "Some", handle |-> catalog[i]]}
            /\ Lookup(catalog[j].path) = {[kind |-> "Some", handle |-> catalog[j]]}

\* C14: once the catalog has overflowed its head page and spans several
\* linked pages, open finds every entry ever created: the first one on the
\* head page and those on every overflow page.
C14_ChainOverflow ==
    PageOf(pages, METADATA_BLOCKNO).segment_handle_insert_blockno # SEGMENT_HANDLE_BLOCKNO =>
        \A i \in 1..Len(catalog) :
            \A o \in open(pages, catalog[i].path) :
                o.kind = "Some" /\ o.handle = catalog[i]

ReservedBlocks == METADATA_BLOCKNO..TANTIVY_MANAGED_BLOCKNO

\* C27: create_metadata makes block 0 the Metadata Page with the insert
\* pointer at block 1, block 1 the catalog head whose next pointer is
\* InvalidBlockNumber, block 2 the writer-lock block, block 3 the meta slot
\* and block 4 the managed slot; whatever is written, deleted and allocated
\* later, none of these blocks is recorded free or returned by new_buffer.
C27_ReservedLayout ==
    /\ Len(create_metadata) = TANTIVY_MANAGED_BLOCKNO + 1
    /\ <<METADATA_BLOCKNO, SEGMENT_HANDLE_BLOCKNO, INDEX_WRITER_LOCK_BLOCKNO,
         TANTIVY_META_BLOCKNO, TANTIVY_MANAGED_BLOCKNO>> = <<0, 1, 2, 3, 4>>
    /\ PageOf(create_metadata, METADATA_BLOCKNO).segment_handle_insert_blockno
            = SEGMENT_HANDLE_BLOCKNO
    /\ SpecialNext(create_metadata, SEGMENT_HANDLE_BLOCKNO) = {InvalidBlockNumber}
    /\ SlotOf(META_FILEPATH) = TANTIVY_META_BLOCKNO
    /\ SlotOf(MANAGED_FILEPATH) = TANTIVY_MANAGED_BLOCKNO
    /\ Len(pages) >= Len(create_metadata)
    /\ fsm \cap ReservedBlocks = {}
    /\ opOut.op \in {"new_buffer", "create"} => Range(opOut.trace) \cap ReservedBlocks = {}

\* a file's page was reclaimed by a delete and a later allocation has
\* returned it, while another reclaimed page is still recorded free
C27_Witness ==
    /\ opOut.op \in {"new_buffer", "create"}
    /\ Range(opOut.trace) \cap opOut.expected # {}
    /\ fsm # {}

\* C19: delete_with_stats(path) of a catalogued segment with n blocks empties
\* each of its n pages, records each free and returns n; of a path without a
\* catalog entry it returns 0; either way every lookup in the catalog gives
\* afterwards what it gave before.
C19_Delete ==
    [][\A path \in CatPaths :
        Delete(path) =>
            /\ opOut'.kind = "Ok"
            /\ opOut'.pages_deleted = Len(Created(path).blocks)
            /\ \A b \in Range(Created(path).blocks) :
                    PageOf(pages', b).items = <<>> /\ b \in fsm'
            /\ Len(pages') < MaxBlocks =>
                    \A q \in CatPaths :
                        {[kind |-> o.kind, handle |-> o.handle] : o \in open(pages', q)}
                            = Lookup(q)]_vars

\* C30: open(path) for a path that no entry was created for returns None and
\* leaves the relation as long as it was: no page is allocated or added.
C30_LookupMiss ==
    (opOut.op = "open" /\ Created(opOut.path) = NoHandle) =>
        /\ opOut.kind = "None"
        /\ Len(pages) = opOut.size

\* ------------------------------------------- new_buffer, call by call
\* one pg_sys call of new_buffer and the block it is about
Ev(name, b) == [ev |-> name, blockno |-> b]

\* buffer.rs lines 35-56: GetFreeIndexPage (which marks the page it returns
\* as used) and get_buffer, repeated while ConditionalLockBuffer fails on the
\* candidate; locked are the blocks whose buffer lock is held
RECURSIVE new_buffer_probe(_, _, _)
new_buffer_probe(free, locked, events) ==
    IF free = {}
    THEN {[fsm |-> free, blockno |-> InvalidBlockNumber, unlock_relation |-> TRUE,
           events |-> events \o <<Ev("GetFreeIndexPage", InvalidBlockNumber),
                                   Ev("LockRelationForExtension", InvalidBlockNumber),
                                   Ev("ReadBufferExtended", InvalidBlockNumber)>>]}
    ELSE UNION {
            LET got == events \o <<Ev("GetFreeIndexPage", b), Ev("ReadBufferExtended", b)>>
            IN IF b \in locked
               THEN new_buffer_probe(free \ {b}, locked,
                        got \o <<Ev("ConditionalLockBuffer failed", b),
                                 Ev("ReleaseBuffer", b)>>)
               ELSE {[fsm |-> free \ {b}, blockno |-> b, unlock_relation |-> FALSE,
                      events |-> Append(got, Ev("ConditionalLockBuffer", b))]}
            : b \in free}

\* new_buffer that returns with the relation extension lock still held
new_buffer_steps_KeepLock(st, locked, special_size) ==
    UNION {
        IF p.blockno = InvalidBlockNumber
        THEN IF Len(st.pages) < MaxBlocks
             THEN {[pages |-> Append(st.pages, PageInit(special_size)), fsm |-> p.fsm,
                    blockno |-> Len(st.pages),
                    events |-> p.events \o <<Ev("LockBuffer", Len(st.pages)),
                                             Ev("PageInit", Len(st.pages))>>]}
             ELSE {}
        ELSE {[pages |-> st.pages, fsm |-> p.fsm, blockno |-> p.blockno,
               events |-> p.events]}
        : p \in new_buffer_probe(st.fsm, locked, <<>>)}

\* new_buffer, lines 32-74, as the sequence of its calls
new_buffer_steps(st, locked, special_size) ==
    UNION {
        LET released == IF p.unlock_relation
                        THEN <<Ev("UnlockRelationForExtension", InvalidBlockNumber)>>
                        ELSE <<>>
        IN IF p.blockno = InvalidBlockNumber
           THEN IF Len(st.pages) < MaxBlocks
                THEN {[pages |-> Append(st.pages, PageInit(special_size)), fsm |-> p.fsm,
                       blockno |-> Len(st.pages),
                       events |-> p.events \o <<Ev("LockBuffer", Len(st.pages)),
                                                Ev("PageInit", Len(st.pages))>>
                                           \o released]}
                ELSE {}
           ELSE {[pages |-> st.pages, fsm |-> p.fsm, blockno |-> p.blockno,
                  events |-> p.events \o released]}
        : p \in new_buffer_probe(st.fsm, locked, <<>>)}

\* a backend calls new_buffer and keeps the page it got locked
AllocBuffer(special_size) ==
    /\ \E r \in new_buffer_steps([pages |-> pages, fsm |-> fsm], busy, special_size) :
        /\ pages' = r.pages
        /\ fsm' = r.fsm
        /\ busy' = busy \cup {r.blockno}
        /\ opOut' = [NoOp EXCEPT !.op = "new_buffer", !.size = Len(pages),
                                 !.expected = fsm, !.locked = busy,
                                 !.blockno = r.blockno, !.events = r.events]
    /\ UNCHANGED <<lwlock, backend, catalog>>
    /\ UNCHANGED <<atomicVars, stepVars, segVars, bridgeVars>>

\* a backend locks the buffer of a data page (get_buffer with a lock)
LockBuffer(b) ==
    /\ ValidBlock(pages, b)
    /\ b > TANTIVY_MANAGED_BLOCKNO
    /\ b \notin busy
    /\ busy' = busy \cup {b}
    /\ UNCHANGED <<pages, fsm, lwlock, backend, catalog, opOut>>
    /\ UNCHANGED <<atomicVars, stepVars, segVars, bridgeVars>>

\* record_free_index_page(b), by the backend that holds b locked
\* (delete_with_stats, blocking.rs line 110)
RecordFreeIndexPage(b) ==
    /\ b \in busy
    /\ b \notin fsm
    /\ fsm' = fsm \cup {b}
    /\ UNCHANGED <<pages, busy, lwlock, backend, catalog, opOut>>
    /\ UNCHANGED <<atomicVars, stepVars, segVars, bridgeVars>>

\* pg_sys::UnlockReleaseBuffer(b)
UnlockReleaseBuffer(b) ==
    /\ b \in busy
    /\ busy' = busy \ {b}
    /\ UNCHANGED <<pages, fsm, lwlock, backend, catalog, opOut>>
    /\ UNCHANGED <<atomicVars, stepVars, segVars, bridgeVars>>

InitAlloc == InitCatalog

NextAlloc ==
    \/ \E special_size \in {0, 1} : AllocBuffer(special_size)
    \/ \E b \in 0..(MaxBlocks - 1) : LockBuffer(b)
    \/ \E b \in 0..(MaxBlocks - 1) : RecordFreeIndexPage(b)
    \/ \E b \in 0..(MaxBlocks - 1) : UnlockReleaseBuffer(b)

SpecAlloc == InitAlloc /\ [][NextAlloc]_vars

\* the positions of the calls named name in the latest new_buffer
PgCalls(name) == {k \in 1..Len(opOut.events) : opOut.events[k].ev = name}

\* C16: new_buffer asks the free space map first; a candidate whose
\* conditional lock fails is released and the next one is asked for; the
\* relation extension lock is taken, and the relation extended, only after
\* the free space map had no candidate left; the page returned was locked by
\* the caller exactly once and by nobody else, and an extension lock that
\* was taken is released exactly once, afterwards.
C16_AllocatorProtocol ==
    opOut.events # <<>> =>
        LET e == opOut.events
            n == Len(e)
            extended == opOut.blockno >= opOut.size
        IN /\ e[1].ev = "GetFreeIndexPage"
           /\ \A k \in PgCalls("ConditionalLockBuffer failed") :
                /\ e[k].blockno \in opOut.locked \cap opOut.expected
                /\ k + 2 <= n
                /\ e[k + 1] = Ev("ReleaseBuffer", e[k].blockno)
                /\ e[k + 2].ev = "GetFreeIndexPage"
           /\ \A k \in PgCalls("LockRelationForExtension") :
                /\ e[k - 1] = Ev("GetFreeIndexPage", InvalidBlockNumber)
                /\ opOut.expected \subseteq opOut.locked
           /\ extended <=> PgCalls("LockRelationForExtension") # {}
           /\ ~extended => opOut.blockno \in opOut.expected
           /\ opOut.blockno \notin opOut.locked
           /\ Cardinality({k \in PgCalls("ConditionalLockBuffer") \cup PgCalls("LockBuffer") :
                                e[k].blockno = opOut.blockno}) = 1
           /\ Cardinality(PgCalls("LockRelationForExtension")) <= 1
           /\ Cardinality(PgCalls("UnlockRelationForExtension"))
                = Cardinality(PgCalls("LockRelationForExtension"))
           /\ \A k \in PgCalls("LockRelationForExtension") :
                \A u \in PgCalls("UnlockRelationForExtension") : k < u

\* a call of new_buffer found the only free page locked by another backend,
\* released it and extended the relation
C16_Witness ==
    /\ PgCalls("ConditionalLockBuffer failed") # {}
    /\ PgCalls("UnlockRelationForExtension") # {}
    /\ opOut.blockno >= opOut.size

\* ------------------------------------------- SegmentHandle::create, call by call
\* segment_handle.rs lines 60-70: the two get_buffer calls that open create
create_locks_TailFirst(insert_blockno) ==
    <<Ev("LockBuffer", insert_blockno), Ev("LockBuffer", METADATA_BLOCKNO)>>

create_locks(insert_blockno) ==
    <<Ev("LockBuffer", METADATA_BLOCKNO), Ev("LockBuffer", insert_blockno)>>

\* SegmentHandle::create, lines 54-121, with the buffer locks it takes and
\* releases; locked are the blocks other backends hold locked
create_steps(st, locked, path, blocks, total_bytes) ==
    LET insert_blockno ==
            PageOf(st.pages, METADATA_BLOCKNO).segment_handle_insert_blockno
        item == HandleItem(path, blocks, total_bytes)
    IN IF ~ValidBlock(st.pages, insert_blockno)
       THEN {[pages |-> st.pages, fsm |-> st.fsm, kind |-> "PgError",
              events |-> <<Ev("LockBuffer", METADATA_BLOCKNO)>>]}
       ELSE LET added == PageAddItem(st.pages, insert_blockno, item)
                both == create_locks(insert_blockno)
            IN IF added.ok
               THEN {[pages |-> added.pages, fsm |-> st.fsm, kind |-> "Ok",
                      events |-> both \o <<Ev("UnlockReleaseBuffer", insert_blockno),
                                            Ev("UnlockReleaseBuffer", METADATA_BLOCKNO)>>]}
               ELSE {LET moved == [nbuf.pages EXCEPT
                                      ![METADATA_BLOCKNO + 1].segment_handle_insert_blockno =
                                          nbuf.blockno]
                         linked == SetSpecialNext(moved, insert_blockno, nbuf.blockno)
                         put == PageAddItem(linked, nbuf.blockno, item)
                     IN [pages |-> put.pages, fsm |-> nbuf.fsm,
                         kind |-> IF put.ok THEN "Ok" ELSE "Err",
                         events |-> both \o nbuf.events
                                    \o <<Ev("UnlockReleaseBuffer", METADATA_BLOCKNO),
                                         Ev("UnlockReleaseBuffer", insert_blockno)>>
                                    \o IF put.ok
                                       THEN <<Ev("UnlockReleaseBuffer", nbuf.blockno)>>
                                       ELSE <<>>]
                        : nbuf \in new_buffer_steps(st,
                                      locked \cup {METADATA_BLOCKNO, insert_blockno}, 1)}

AppendPaths == {"a.store"}

\* a backend appends an entry to the catalog; it waits while another backend
\* holds the Metadata Page or the insert page
CatalogAppend(path) ==
    /\ LET was == PageOf(pages, METADATA_BLOCKNO).segment_handle_insert_blockno
       IN /\ {METADATA_BLOCKNO, was} \cap busy = {}
          /\ \E c \in create_steps([pages |-> pages, fsm |-> fsm], busy, path, <<>>, 0) :
                /\ pages' = c.pages
                /\ fsm' = c.fsm
                /\ busy' = IF c.kind = "Err"
                           THEN busy \cup {PageOf(c.pages, METADATA_BLOCKNO).segment_handle_insert_blockno}
                           ELSE busy
                /\ opOut' = [NoOp EXCEPT
                                !.op = "SegmentHandle::create", !.path = path,
                                !.kind = c.kind, !.size = Len(pages), !.blockno = was,
                                !.locked = busy,
                                !.trace = <<was, PageOf(c.pages, METADATA_BLOCKNO).segment_handle_insert_blockno>>,
                                !.events = c.events]
    /\ UNCHANGED <<lwlock, backend, catalog>>
    /\ UNCHANGED <<atomicVars, stepVars, segVars, bridgeVars>>

InitCreate == InitCatalog

NextCreate ==
    \/ \E path \in AppendPaths : CatalogAppend(path)
    \/ AllocBuffer(1)
    \/ \E b \in 0..(MaxBlocks - 1) : LockBuffer(b)
    \/ \E b \in 0..(MaxBlocks - 1) : RecordFreeIndexPage(b)
    \/ \E b \in 0..(MaxBlocks - 1) : UnlockReleaseBuffer(b)

SpecCreate == InitCreate /\ [][NextCreate]_vars

\* the blocks whose buffer lock the caller holds after the first k calls
RECURSIVE HeldAfter(_, _)
HeldAfter(e, k) ==
    IF k = 0 THEN {}
    ELSE IF e[k].ev \in {"LockBuffer", "ConditionalLockBuffer"}
    THEN HeldAfter(e, k - 1) \cup {e[k].blockno}
    ELSE IF e[k].ev = "UnlockReleaseBuffer"
    THEN HeldAfter(e, k - 1) \ {e[k].blockno}
    ELSE HeldAfter(e, k - 1)

\* the calls of the latest create that lock block b
LocksOf(b) ==
    {k \in 1..Len(opOut.events) :
        /\ opOut.events[k].ev \in {"LockBuffer", "ConditionalLockBuffer"}
        /\ opOut.events[k].blockno = b}

CreateDone == opOut.op = "SegmentHandle::create" /\ opOut.kind = "Ok"

Threads == 1..MaxThreads
Pattern(n) == [i \in 1..n |-> IF i % 2 = 1 THEN 1 ELSE 2]
BridgeData == {Pattern(1), Pattern(MaxLen)}
BridgeAtomicPaths == {META_FILEPATH, OtherPath}
BridgeLocks == {INDEX_WRITER_LOCK, META_LOCK, OtherLock}
CtidSets == {{1}}

ResponseBearing(kind) == kind \notin {"ReleaseBlockingLock", "Terminate"}

\* Directory calls made so far
Calls == Cardinality({i \in 1..Len(requests) : ResponseBearing(requests[i].kind)})

\* the thread that runs UnlockReleaseBuffer: 0 is the foreground thread
Foreground == 0

\* the ChannelLock of thread t is dropped:
\* sender.send(ReleaseBlockingLock(lock)).unwrap().  The send fails once the
\* handler's receiver is gone: when the foreground has unwound out of
\* receive_blocking, or after the loop returned and the handler was dropped.
\* The BlockingLock then comes back in the SendError and is dropped where it
\* is, on thread t, and the unwrap panics; in a thread that is already
\* unwinding that second panic aborts the process before anything is dropped.
DropLock(t, unwinding) ==
    LET lock == worker[t].lock
        kept == [requests |-> requests, unlocks |-> unlocks, held |-> held, panics |-> FALSE]
        sent == [kept EXCEPT !.requests =
                    Append(requests, [NoRequest EXCEPT !.kind = "ReleaseBlockingLock",
                                                       !.from = t, !.lock = lock])]
        failed == IF unwinding THEN [kept EXCEPT !.panics = TRUE]
                  ELSE [kept EXCEPT !.unlocks = Append(unlocks, [lock |-> lock, on |-> t]),
                                    !.held = BlockingLock_drop(held, lock),
                                    !.panics = TRUE]
    IN IF lock = "" THEN {kept}
       ELSE IF handler \in {"failed", "panicked"} THEN {failed}
       ELSE IF handler = "returned" THEN {sent, failed}
       ELSE {sent}

\* request_sender.send(request).unwrap(); the caller goes on to recv()
Call(t, request) ==
    /\ t <= nThreads
    /\ worker[t].pc = "run"
    /\ Calls < MaxRequests
    /\ requests' = Append(requests, [request EXCEPT !.from = t])
    /\ worker' = [worker EXCEPT ![t].pc = "wait", ![t].op = request.kind]
    /\ UNCHANGED <<nThreads, taken, responses, receivedBy, handler, held, handled, unlocks>>
    /\ UNCHANGED <<storeVars, atomicVars, stepVars, segVars>>
    /\ UNCHANGED sideVars

ChannelDirectory_atomic_read(t, path) ==
    Call(t, [NoRequest EXCEPT !.kind = "AtomicRead", !.path = path])

ChannelDirectory_atomic_write(t, path, data) ==
    Call(t, [NoRequest EXCEPT !.kind = "AtomicWrite", !.path = path, !.data = data])

ChannelDirectory_delete(t, path) ==
    Call(t, [NoRequest EXCEPT !.kind = "SegmentDelete", !.path = path])

\* acquire_lock: one ChannelLock per thread at a time
ChannelDirectory_acquire_lock(t, lock) ==
    /\ worker[t].lock = ""
    /\ Call(t, [NoRequest EXCEPT !.kind = "AcquireLock", !.lock = lock])

\* get_file_handle: ChannelReader::new asks for the handle
ChannelReader_new(t, path) ==
    Call(t, [NoRequest EXCEPT !.kind = "GetSegmentHandle", !.path = path])

\* ChannelReader::read_bytes on the reader the thread has
ChannelReader_read_bytes(t, start, end) ==
    /\ worker[t].handle # NoHandle
    /\ Call(t, [NoRequest EXCEPT !.kind = "SegmentRead", !.path = worker[t].handle.path,
                                 !.start = start, !.end = end,
                                 !.handle = worker[t].handle])

\* open_write, the writes, and terminate: ChannelWriter::terminate_ref sends
\* the whole buffer
ChannelWriter_terminate_ref(t, path, data) ==
    Call(t, [NoRequest EXCEPT !.kind = "SegmentWrite", !.path = path, !.data = data])

\* the worker asks which ctids to delete
SendShouldDeleteCtids(t, ctids) ==
    Call(t, [NoRequest EXCEPT !.kind = "ShouldDeleteCtids", !.ctids = ctids])

\* ChannelLock::drop: the release is sent and the thread goes on
ChannelLock_drop(t) ==
    /\ t <= nThreads
    /\ worker[t].pc = "run"
    /\ worker[t].lock # ""
    /\ \E d \in DropLock(t, FALSE) :
        /\ requests' = d.requests
        /\ unlocks' = d.unlocks
        /\ held' = d.held
        /\ worker' = [worker EXCEPT ![t].lock = "",
                                    ![t].pc = IF d.panics THEN "panicked" ELSE @]
    /\ UNCHANGED <<nThreads, taken, responses, receivedBy, handler, handled>>
    /\ UNCHANGED <<storeVars, atomicVars, stepVars, segVars>>
    /\ UNCHANGED sideVars

\* the response variant each caller's match accepts
ExpectedResponse(op) ==
    CASE op = "AtomicRead" -> "Bytes"
      [] op = "AtomicWrite" -> "AtomicWriteAck"
      [] op = "SegmentDelete" -> "SegmentDeleteAck"
      [] op = "AcquireLock" -> "AcquiredLock"
      [] op = "GetSegmentHandle" -> "SegmentHandle"
      [] op = "SegmentRead" -> "Bytes"
      [] op = "SegmentWrite" -> "SegmentWriteAck"
      [] op = "ShouldDeleteCtids" -> "ShouldDeleteCtids"
      [] OTHER -> ""

\* the callers whose match panics on any other variant; the rest return Err
PanicsOnUnexpected(op) ==
    op \in {"GetSegmentHandle", "SegmentRead", "SegmentWrite", "ShouldDeleteCtids"}

\* response_receiver.recv().unwrap(): the thread takes the oldest response
\* that no recv() has taken yet
Recv(t) ==
    /\ t <= nThreads
    /\ worker[t].pc = "wait"
    /\ Len(receivedBy) < Len(responses)
    /\ LET r == responses[Len(receivedBy) + 1]
           op == worker[t].op
           matches == r.kind = ExpectedResponse(op)
           missing == matches /\ op = "GetSegmentHandle" /\ ~r.some
           panics == missing \/ (~matches /\ PanicsOnUnexpected(op))
       IN /\ worker' = [worker EXCEPT ![t] =
                IF panics THEN [@ EXCEPT !.pc = "panicked", !.op = "", !.lock = ""]
                ELSE IF ~matches THEN [@ EXCEPT !.pc = "run", !.op = "", !.out = "Err"]
                ELSE [@ EXCEPT !.pc = "run", !.op = "", !.out = "Ok",
                               !.handle = IF op = "GetSegmentHandle" THEN r.handle ELSE @,
                               !.lock = IF op = "AcquireLock" THEN r.lock ELSE @]]
          /\ \E d \in (IF panics THEN DropLock(t, TRUE)
                        ELSE {[requests |-> requests, unlocks |-> unlocks,
                               held |-> held, panics |-> FALSE]}) :
                /\ requests' = d.requests
                /\ held' = IF ~matches /\ r.kind = "AcquiredLock"
                           THEN BlockingLock_drop(d.held, r.lock)
                           ELSE d.held
                /\ unlocks' = IF ~matches /\ r.kind = "AcquiredLock"
                              THEN Append(d.unlocks, [lock |-> r.lock, on |-> t])
                              ELSE d.unlocks
    /\ receivedBy' = Append(receivedBy, t)
    /\ UNCHANGED <<nThreads, taken, responses, handler, handled>>
    /\ UNCHANGED <<storeVars, atomicVars, stepVars, segVars>>
    /\ UNCHANGED sideVars

\* the thread's work is done
WorkerEnd(t) ==
    /\ t <= nThreads
    /\ worker[t].pc = "run"
    /\ \E d \in DropLock(t, FALSE) :
        /\ requests' = d.requests
        /\ unlocks' = d.unlocks
        /\ held' = d.held
        /\ worker' = [worker EXCEPT ![t].pc = IF d.panics THEN "panicked" ELSE "ended",
                                    ![t].lock = ""]
    /\ UNCHANGED <<nThreads, taken, responses, receivedBy, handler, handled>>
    /\ UNCHANGED <<storeVars, atomicVars, stepVars, segVars>>
    /\ UNCHANGED sideVars

\* an unwrap() or expect() of the thread's code fails
WorkerPanic(t) ==
    /\ t <= nThreads
    /\ worker[t].pc = "run"
    /\ \E d \in DropLock(t, TRUE) :
        /\ requests' = d.requests
        /\ unlocks' = d.unlocks
        /\ held' = d.held
    /\ worker' = [worker EXCEPT ![t].pc = "panicked", ![t].lock = ""]
    /\ UNCHANGED <<nThreads, taken, responses, receivedBy, handler, handled>>
    /\ UNCHANGED <<storeVars, atomicVars, stepVars, segVars>>
    /\ UNCHANGED sideVars

\* -------------------------------------------------- ChannelRequestHandler
\* should_delete of amvacuumcleanup: |_| false
should_delete(ctid) == FALSE

\* what an arm of receive_blocking leaves: the storage, the locks, the loop's
\* state, the response it sent (kind "" if none) and how the operation ended
Arm(pgs, f, h, state, resp, kind, data) ==
    [pages |-> pgs, fsm |-> f, held |-> h, state |-> state, resp |-> resp,
     kind |-> kind, data |-> data]

\* the loop's state after an operation that ended as kind: `?` returns Err, a
\* panic or a PostgreSQL error unwinds, an endless walk never comes back
AfterKind(kind) ==
    CASE kind \in {"Ok", "Some", "None"} -> "running"
      [] kind \in {"Err", "FileDoesNotExist"} -> "failed"
      [] kind \in {"Panic", "PgError"} -> "panicked"
      [] kind = "Endless" -> "endless"
      [] kind = "Blocked" -> "blocked"

\* every arm answering with Bytes
ResponseFor_Bytes(kind) == IF ResponseBearing(kind) THEN "Bytes" ELSE ""

\* the response variant an arm sends when its operation succeeds
ResponseFor(kind) ==
    CASE kind = "AcquireLock" -> "AcquiredLock"
      [] kind = "AtomicRead" -> "Bytes"
      [] kind = "AtomicWrite" -> "AtomicWriteAck"
      [] kind = "GetSegmentHandle" -> "SegmentHandle"
      [] kind = "SegmentRead" -> "Bytes"
      [] kind = "SegmentWrite" -> "SegmentWriteAck"
      [] kind = "SegmentDelete" -> "SegmentDeleteAck"
      [] kind = "ShouldDeleteCtids" -> "ShouldDeleteCtids"
      [] OTHER -> ""

Response(kind) == [NoResponse EXCEPT !.kind = ResponseFor(kind)]

\* one iteration of the loop of receive_blocking for message
receive_blocking_arm(st, h, message) ==
    CASE message.kind = "AcquireLock" ->
            LET got == acquire_blocking_lock(h, message.lock)
            IN {Arm(st.pages, st.fsm, got.held, AfterKind(got.kind),
                    IF got.kind = "Ok"
                    THEN [Response(message.kind) EXCEPT !.lock = message.lock]
                    ELSE NoResponse,
                    got.kind, <<>>)}
      [] message.kind = "AtomicRead" ->
            {Arm(st.pages, st.fsm, h, AfterKind(r.kind),
                 IF r.kind = "Ok"
                 THEN [Response(message.kind) EXCEPT !.data = r.data]
                 ELSE NoResponse,
                 r.kind, r.data)
                : r \in atomic_read(st.pages, message.path)}
      [] message.kind = "AtomicWrite" ->
            {Arm(w.pages, w.fsm, h, AfterKind(w.kind),
                 IF w.kind = "Ok" THEN Response(message.kind) ELSE NoResponse,
                 w.kind, <<>>)
                : w \in atomic_write(st, message.path, message.data)}
      [] message.kind = "GetSegmentHandle" ->
            {Arm(o.pages, st.fsm, h, AfterKind(o.kind),
                 IF o.kind \in {"Some", "None"}
                 THEN [Response(message.kind) EXCEPT !.some = o.kind = "Some",
                                                      !.handle = o.handle]
                 ELSE NoResponse,
                 o.kind, <<>>)
                : o \in open(st.pages, message.path)}
      [] message.kind = "ReleaseBlockingLock" ->
            {Arm(st.pages, st.fsm, BlockingLock_drop(h, message.lock), "running",
                 NoResponse, "Ok", <<>>)}
      [] message.kind = "SegmentRead" ->
            LET r == FileHandleReader_read_bytes(st.pages, message.handle,
                                                 message.start, message.end)
            IN {Arm(st.pages, st.fsm, h, AfterKind(r.kind),
                    IF r.kind = "Ok"
                    THEN [Response(message.kind) EXCEPT !.data = r.data]
                    ELSE NoResponse,
                    r.kind, r.data)}
      [] message.kind = "SegmentWrite" ->
            LET w == IoWriter_write(IoWriter_new(message.path), message.data)
            IN IF w.state = "panicked"
               THEN {Arm(st.pages, st.fsm, h, "panicked", NoResponse, "Panic", <<>>)}
               ELSE {Arm(st.pages, st.fsm, h, "running", Response(message.kind),
                         "Ok", <<>>)}
      [] message.kind = "SegmentDelete" ->
            {Arm(d.pages, d.fsm, h, AfterKind(d.kind),
                 IF d.kind = "Ok" THEN Response(message.kind) ELSE NoResponse,
                 d.kind, <<>>)
                : d \in delete_with_stats(st, message.path)}
      [] message.kind = "ShouldDeleteCtids" ->
            {Arm(st.pages, st.fsm, h, "running",
                 [Response(message.kind) EXCEPT
                    !.ctids = {c \in message.ctids : should_delete(c)}],
                 "Ok", <<>>)}
      [] message.kind = "Terminate" ->
            {Arm(st.pages, st.fsm, h, "returned", NoResponse, "Ok", <<>>)}

\* receive_blocking takes the next message and runs its arm
ReceiveBlocking ==
    /\ handler = "running"
    /\ taken < Len(requests)
    /\ \E out \in receive_blocking_arm([pages |-> pages, fsm |-> fsm], held,
                                       requests[taken + 1]) :
        /\ pages' = out.pages
        /\ fsm' = out.fsm
        /\ held' = out.held
        /\ handler' = out.state
        /\ responses' = IF out.resp.kind = "" THEN responses
                        ELSE Append(responses, [out.resp EXCEPT !.id = taken + 1])
        /\ handled' = [id |-> taken + 1, request |-> requests[taken + 1],
                       kind |-> out.kind, data |-> out.data]
    /\ unlocks' = IF requests[taken + 1].kind = "ReleaseBlockingLock"
                  THEN Append(unlocks, [lock |-> requests[taken + 1].lock,
                                        on |-> Foreground])
                  ELSE unlocks
    /\ taken' = taken + 1
    /\ UNCHANGED <<nThreads, worker, requests, receivedBy>>
    /\ UNCHANGED <<atomicVars, stepVars, segVars>>
    /\ UNCHANGED sideVars

\* ------------------------------------------------------- amvacuumcleanup
\* thread 1 is the spawned thread: its closure runs under catch_unwind, and
\* both arms of the match on the result send Terminate
SendTerminate ==
    /\ worker[1].pc \in {"ended", "panicked"}
    /\ requests' = Append(requests, [NoRequest EXCEPT !.kind = "Terminate", !.from = 1])
    /\ worker' = [worker EXCEPT ![1].pc = "exited"]
    /\ UNCHANGED <<nThreads, taken, responses, receivedBy, handler, held, handled, unlocks>>
    /\ UNCHANGED <<storeVars, atomicVars, stepVars, segVars>>
    /\ UNCHANGED sideVars

\* what open_write, write(data) and terminate of the direct adapter leave
direct_write(st, path, data) ==
    UNION {
        {[pages |-> out.pages, fsm |-> out.fsm]
            : out \in {o \in terminate_ref([pages |-> flushed.pages, fsm |-> flushed.fsm],
                                           flushed.writer) :
                          o.writer.state = "terminated"}}
        : flushed \in {fl \in flush(st, [SegmentHandleWriter_new(path) EXCEPT !.data = data]) :
                          fl.writer.state = "open"}}

\* the index as amvacuumcleanup finds it: new, or with "a.store" written
\* through the direct adapter
Seeds ==
    LET new == [pages |-> create_metadata, fsm |-> {}]
    IN {new} \cup UNION {direct_write(new, "a.store", Pattern(n))
                            : n \in 1..MAX_HEAP_TUPLE_SIZE}

InitBridge ==
    /\ \E seed \in Seeds :
        /\ pages = seed.pages
        /\ fsm = seed.fsm
    /\ InitAtomicIdle
    /\ InitSegIdle
    /\ nThreads \in 1..MaxThreads
    /\ worker = [t \in Threads |->
                    IF t <= nThreads THEN [NoWorker EXCEPT !.pc = "run"] ELSE NoWorker]
    /\ requests = <<>>
    /\ taken = 0
    /\ responses = <<>>
    /\ receivedBy = <<>>
    /\ handler = "running"
    /\ held = {}
    /\ handled = NoHandled
    /\ unlocks = <<>>
    /\ InitSideIdle

WorkerStep(t) ==
    \/ \E path \in BridgeAtomicPaths : ChannelDirectory_atomic_read(t, path)
    \/ \E path \in BridgeAtomicPaths :
            ChannelDirectory_atomic_write(t, path, Pattern(MaxLen))
    \/ \E path \in SegPaths : ChannelDirectory_delete(t, path)
    \/ \E lock \in BridgeLocks : ChannelDirectory_acquire_lock(t, lock)
    \/ \E path \in SegPaths : ChannelReader_new(t, path)
    \/ \E start \in 0..1 : \E end \in start..MaxFile :
            ChannelReader_read_bytes(t, start, end)
    \/ \E path \in SegPaths, data \in BridgeData : ChannelWriter_terminate_ref(t, path, data)
    \/ \E ctids \in CtidSets : SendShouldDeleteCtids(t, ctids)
    \/ ChannelLock_drop(t)
    \/ Recv(t)
    \/ WorkerEnd(t)
    \/ WorkerPanic(t)

NextBridge ==
    \/ \E t \in Threads : WorkerStep(t)
    \/ SendTerminate
    \/ ReceiveBlocking

SpecBridge == InitBridge /\ [][NextBridge]_vars

\* the liveness of amvacuumcleanup: the loop takes every message in time,
\* threads that can receive do, and the spawned thread reaches its send
SpecVacuum ==
    /\ InitBridge
    /\ [][NextBridge]_vars
    /\ WF_vars(ReceiveBlocking)
    /\ WF_vars(SendTerminate)
    /\ \A t \in Threads : WF_vars(Recv(t))

\* the handler has just answered a SegmentWrite with SegmentWriteAck
SegmentWriteAnswered ==
    /\ handled.request.kind = "SegmentWrite"
    /\ handled.kind = "Ok"
    /\ Len(responses) > 0
    /\ responses[Len(responses)] = [NoResponse EXCEPT !.kind = "SegmentWriteAck",
                                                      !.id = handled.id]

\* C4: once the handler has answered SegmentWrite(path, data) with
\* SegmentWriteAck, looking path up in the catalog gives a handle, not None,
\* whose total_bytes is the length of data and whose blocks hold data.
C4_BridgeWriteFidelity ==
    SegmentWriteAnswered =>
        \A o \in WholeRead(handled.request.path) :
            /\ o.kind = "Some"
            /\ o.handle.total_bytes = Len(handled.request.data)
            /\ o.res = [kind |-> "Ok", data |-> handled.request.data]

\* the handler has just served a SegmentRead of a segment of the catalog
SegmentReadServed ==
    /\ handled.request.kind = "SegmentRead"
    /\ \E o \in open(pages, handled.request.path) :
            o.kind = "Some" /\ o.handle = handled.request.handle

\* C5: a SegmentRead served by the handler ends as read_bytes of the direct
\* adapter's reader does for the same segment and range: the same bytes, or
\* an error in the same cases.
C5_BridgeReadFidelity ==
    SegmentReadServed =>
        [kind |-> handled.kind, data |-> handled.data] =
            SegmentHandleReader_read_bytes(pages, handled.request.handle,
                                           handled.request.start, handled.request.end)

\* the responses the handler sent for request i
ResponsesTo(i) == {k \in 1..Len(responses) : responses[k].id = i}

\* C6: every request other than Terminate is a synchronous round trip: the
\* handler sends exactly one response for each it has handled, and a thread
\* that has sent a later request has received the response to the earlier one.
C6_SynchronousRoundTrip ==
    \A i \in 1..Len(requests) :
        requests[i].kind # "Terminate" =>
            /\ i <= taken => Cardinality(ResponsesTo(i)) = 1
            /\ (\E j \in (i + 1)..Len(requests) : requests[j].from = requests[i].from) =>
                    \E k \in 1..Len(receivedBy) :
                        responses[k].id = i /\ receivedBy[k] = requests[i].from

\* C7: each response is received by the thread that sent the request it
\* answers.
C7_ResponseToSender ==
    \A k \in 1..Len(receivedBy) : receivedBy[k] = requests[responses[k].id].from

\* the index in requests of the k-th request that bears a response
BearingIndex(k) ==
    CHOOSE i \in 1..Len(requests) :
        /\ ResponseBearing(requests[i].kind)
        /\ Cardinality({j \in 1..i : ResponseBearing(requests[j].kind)}) = k

\* the variant the specification pairs with each request
C8_Variant ==
    [AtomicRead |-> "Bytes", AtomicWrite |-> "AtomicWriteAck",
     GetSegmentHandle |-> "SegmentHandle", SegmentRead |-> "Bytes",
     SegmentWrite |-> "SegmentWriteAck", SegmentDelete |-> "SegmentDeleteAck",
     AcquireLock |-> "AcquiredLock", ShouldDeleteCtids |-> "ShouldDeleteCtids"]

\* C8: with a single worker thread, the k-th response the worker receives is
\* the one the handler produced for the worker's k-th response-bearing
\* request, and its variant is the one paired with that request.
C8_SingleWorkerOrder ==
    nThreads = 1 =>
        \A k \in 1..Len(receivedBy) :
            /\ responses[k].id = BearingIndex(k)
            /\ responses[k].kind = C8_Variant[requests[BearingIndex(k)].kind]

\* a single worker has received two responses with a lock release sent in
\* between, so that the k-th request is not the k-th response-bearing one
C8_Witness ==
    /\ nThreads = 1
    /\ Len(receivedBy) >= 2
    /\ \E i \in 1..Len(requests) :
            requests[i].kind = "ReleaseBlockingLock" /\ i < responses[2].id

Terminates == {i \in 1..Len(requests) : requests[i].kind = "Terminate"}

\* C9: the spawned thread sends Terminate exactly once, after its closure
\* ended normally or by a panic, and receive_blocking returns: the loop is
\* never left by a panic or an error raised inside it, and never stops
\* taking messages.
C9_VacuumTermination ==
    /\ Cardinality(Terminates) = (IF worker[1].pc = "exited" THEN 1 ELSE 0)
    /\ handler \in {"running", "returned", "failed"}

\* C12: every page lock acquired through an AcquireLock request is unlocked
\* on the foreground thread, never on a worker thread, also when the worker
\* drops its guard after the handler loop has stopped receiving.
C12_UnlockOnForeground ==
    \A k \in 1..Len(unlocks) : unlocks[k].on = Foreground

\* --------------------------------------------- write_bytes, call by call
\* atomic.rs lines 73-77, the next page exists; taken the other way round
write_bytes_next_Coupled(cur, nb) ==
    <<Ev("LockBuffer", nb), Ev("UnlockReleaseBuffer", cur)>>

\* atomic.rs lines 73-77: the next page exists
write_bytes_next(cur, nb) ==
    <<Ev("UnlockReleaseBuffer", cur), Ev("LockBuffer", nb)>>

\* the loop of write_bytes with the buffer locks it takes and releases;
\* locked are the blocks other backends hold locked
RECURSIVE write_steps(_, _, _, _, _, _)
write_steps(st, locked, cur, chunks, i, events) ==
    IF i > Len(chunks)
    THEN {[pages |-> st.pages, fsm |-> st.fsm, kind |-> "Ok",
           events |-> Append(events, Ev("UnlockReleaseBuffer", cur))]}
    ELSE IF i = 1
    THEN write_steps([st EXCEPT !.pages = PutChunk(st.pages, cur, chunks[1])],
                     locked, cur, chunks, 2, events)
    ELSE UNION {
        IF nb = InvalidBlockNumber
        THEN UNION {write_steps(
                        [pages |-> PutChunk(SetSpecialNext(nbuf.pages, cur, nbuf.blockno),
                                            nbuf.blockno, chunks[i]),
                         fsm |-> nbuf.fsm],
                        locked, nbuf.blockno, chunks, i + 1,
                        events \o nbuf.events \o <<Ev("UnlockReleaseBuffer", cur)>>)
                    : nbuf \in new_buffer_steps(st, locked \cup {cur}, 1)}
        ELSE IF ~ValidBlock(st.pages, nb)
        THEN {[pages |-> st.pages, fsm |-> st.fsm, kind |-> "PgError",
               events |-> Append(events, Ev("UnlockReleaseBuffer", cur))]}
        ELSE write_steps([st EXCEPT !.pages = PutChunk(st.pages, nb, chunks[i])],
                         locked, nb, chunks, i + 1,
                         events \o write_bytes_next(cur, nb))
        : nb \in SpecialNext(st.pages, cur)}

\* write_bytes, lines 56-101, as the sequence of its lock calls
write_bytes_steps(st, locked, data, blockno) ==
    write_steps(st, locked, blockno, Chunks(data), 1, <<Ev("LockBuffer", blockno)>>)

\* values of no chunk, one chunk, two chunks and three
ChainData == {Pattern(n) : n \in {0, 1, MAX_HEAP_TUPLE_SIZE + 1, 2 * MAX_HEAP_TUPLE_SIZE + 1}}

\* the blocks the calls lock with LockBuffer (get_buffer with a lock, or
\* new_buffer on the page it extended the relation by)
Waited(events) ==
    {events[k].blockno : k \in {j \in 1..Len(events) : events[j].ev = "LockBuffer"}}

\* write_meta or write_managed by a backend; it waits while another backend
\* holds a page of the chain
AtomicWriteSteps(path, data) ==
    /\ \E w \in write_bytes_steps([pages |-> pages, fsm |-> fsm], busy, data, SlotOf(path)) :
        /\ Waited(w.events) \cap busy = {}
        /\ pages' = w.pages
        /\ fsm' = w.fsm
        /\ opOut' = [NoOp EXCEPT !.op = "write_bytes", !.path = path, !.kind = w.kind,
                                 !.size = Len(pages), !.locked = busy,
                                 !.events = w.events]
    /\ UNCHANGED <<lwlock, backend, catalog, busy>>
    /\ UNCHANGED <<atomicVars, stepVars, segVars, bridgeVars>>

InitWrite == InitCatalog

NextWrite ==
    \/ \E data \in ChainData : AtomicWriteSteps(META_FILEPATH, data)
    \/ \E b \in 0..(MaxBlocks - 1) : LockBuffer(b)
    \/ \E b \in 0..(MaxBlocks - 1) : RecordFreeIndexPage(b)
    \/ \E b \in 0..(MaxBlocks - 1) : UnlockReleaseBuffer(b)

SpecWrite == InitWrite /\ [][NextWrite]_vars

WriteDone == opOut.op = "write_bytes" /\ opOut.kind = "Ok"

\* the calls of the latest operation that lock a buffer
LockCalls == PgCalls("LockBuffer") \cup PgCalls("ConditionalLockBuffer")

\* the locks new_buffer takes on the page it returns
NewPageLocks ==
    {k \in LockCalls :
        \/ opOut.events[k].ev = "ConditionalLockBuffer"
        \/ k > 1 /\ opOut.events[k - 1] = Ev("ReadBufferExtended", InvalidBlockNumber)}

WritePaths == {"a.store", "a.lock"}
WriteData == {<<>>, Pattern(1), Pattern(MAX_HEAP_TUPLE_SIZE)}

\* ChannelWriter::new asserts that the path is no .lock file
ChannelWriter_new(path) ==
    [state |-> IF LockSuffix(path) THEN "panicked" ELSE "open", path |-> path, data |-> <<>>]

\* the direct adapter: open_write(path), which is SegmentHandleWriter::new
\* under a BufWriter, then write(data) and terminate
DirectOpenWrite(path, data) ==
    /\ LET w == [SegmentHandleWriter_new(path) EXCEPT !.data = data]
           before == Lookup(path)
       IN \E flushed \in flush([pages |-> pages, fsm |-> fsm], w) :
            IF flushed.writer.state # "open"
            THEN /\ pages' = flushed.pages
                 /\ fsm' = flushed.fsm
                 /\ opOut' = [NoOp EXCEPT !.op = "BlockingDirectory::open_write",
                                          !.path = path, !.kind = "Panic",
                                          !.size = Len(pages), !.expected = before]
            ELSE \E out \in terminate_ref([pages |-> flushed.pages, fsm |-> flushed.fsm],
                                          flushed.writer) :
                 /\ pages' = out.pages
                 /\ fsm' = out.fsm
                 /\ opOut' = [NoOp EXCEPT !.op = "BlockingDirectory::open_write",
                                          !.path = path,
                                          !.kind = IF out.writer.state = "terminated"
                                                   THEN "Ok" ELSE "Panic",
                                          !.size = Len(pages), !.expected = before]
    /\ UNCHANGED <<lwlock, backend, catalog, busy>>
    /\ UNCHANGED <<atomicVars, stepVars, segVars, bridgeVars>>

\* the bridged adapter: open_write(path), which is ChannelWriter::new under a
\* BufWriter, then write(data) and terminate, whose SegmentWrite the handler
\* serves
BridgedOpenWrite(path, data) ==
    /\ LET w == ChannelWriter_new(path)
           before == Lookup(path)
           message == [NoRequest EXCEPT !.kind = "SegmentWrite", !.path = path,
                                        !.data = data]
       IN IF w.state # "open"
          THEN /\ UNCHANGED <<pages, fsm>>
               /\ opOut' = [NoOp EXCEPT !.op = "ChannelDirectory::open_write",
                                        !.path = path, !.kind = "Panic",
                                        !.size = Len(pages), !.expected = before]
          ELSE \E a \in receive_blocking_arm([pages |-> pages, fsm |-> fsm], {}, message) :
               /\ pages' = a.pages
               /\ fsm' = a.fsm
               /\ opOut' = [NoOp EXCEPT !.op = "ChannelDirectory::open_write",
                                        !.path = path, !.kind = a.kind,
                                        !.size = Len(pages), !.expected = before]
    /\ UNCHANGED <<lwlock, backend, catalog, busy>>
    /\ UNCHANGED <<atomicVars, stepVars, segVars, bridgeVars>>

InitOpenWrite == InitCatalog

NextOpenWrite ==
    \/ \E path \in WritePaths, data \in WriteData : DirectOpenWrite(path, data)
    \/ \E path \in WritePaths, data \in WriteData : BridgedOpenWrite(path, data)

SpecOpenWrite == InitOpenWrite /\ [][NextOpenWrite]_vars

\* C23: an open_write for a path ending in ".lock", on the direct adapter as
\* on the bridged one, fails: the relation has the size it had, and a lookup
\* of the path in the catalog gives what it gave before.
C23_LockFilesRejected ==
    (/\ opOut.op \in {"BlockingDirectory::open_write", "ChannelDirectory::open_write"}
     /\ LockSuffix(opOut.path)) =>
        /\ opOut.kind = "Panic"
        /\ Len(pages) = opOut.size
        /\ Lookup(opOut.path) = opOut.expected

\* the handler has just served an AtomicRead of a slot that no AtomicWrite
\* taken before it had written
NeverWrittenRead ==
    /\ handled.request.kind = "AtomicRead"
    /\ handled.request.path \in AtomicPaths
    /\ \A i \in 1..(handled.id - 1) :
            ~(requests[i].kind = "AtomicWrite" /\ requests[i].path = handled.request.path)

\* C21: an AtomicRead of a slot that was never written ends as
\* FileDoesNotExist, as the direct adapter's atomic_read does, the worker is
\* sent an answer to it, and the handler's loop is still running for the
\* worker's later requests.
C21_NotFoundOverBridge ==
    NeverWrittenRead =>
        /\ handled.kind = "FileDoesNotExist"
        /\ \E k \in 1..Len(responses) : responses[k].id = handled.id
        /\ handler = "running"

\* ------------------------------------------- registration at termination
\* the segment files other writers of the index have written
OtherSegPaths == {"c.store", "d.store"}
RegisterData == {Pattern(1), Pattern(MAX_HEAP_TUPLE_SIZE)}

\* another writer's file: open_write(path) and terminate, nothing written
Register(path) ==
    /\ Created(path) = NoHandle
    /\ \E out \in terminate_ref([pages |-> pages, fsm |-> fsm],
                                SegmentHandleWriter_new(path)) :
        /\ out.writer.state = "terminated"
        /\ pages' = out.pages
        /\ fsm' = out.fsm
        /\ catalog' = Append(catalog, [path |-> path, blocks |-> out.writer.blocks,
                                       total_bytes |-> out.writer.total_bytes])
    /\ UNCHANGED <<lwlock, backend, opOut, busy>>
    /\ UNCHANGED <<atomicVars, stepVars, segVars, bridgeVars>>

InitRegister == InitSegment

NextRegister ==
    \/ \E path \in SegPaths : OpenWrite(path)
    \/ \E path \in SegPaths, data \in RegisterData : Write(path, data)
    \/ \E path \in SegPaths : Flush(path)
    \/ \E path \in SegPaths : Terminate(path)
    \/ \E path \in OtherSegPaths : Register(path)

SpecRegister == InitRegister /\ [][NextRegister]_vars

\* how many catalog entries the pages of the relation hold for path
RECURSIVE EntriesFrom(_, _, _)
EntriesFrom(pgs, b, path) ==
    IF ~ValidBlock(pgs, b) THEN 0
    ELSE Cardinality({k \in 1..Len(PageOf(pgs, b).items) :
                        PageOf(pgs, b).items[k].path = path})
         + EntriesFrom(pgs, b + 1, path)

Entries(path) == EntriesFrom(pages, 0, path)

\* C26: write and flush create no catalog entry: until a writer's terminate
\* open(path) returns None and no page holds an entry for the path, and
\* after it open(path) returns the one entry there is.
C26_RegisteredAtTerminate ==
    \A path \in SegPaths :
        /\ writer[path].state \in {"none", "open"} =>
                /\ Entries(path) = 0
                /\ \A o \in open(pages, path) : o.kind = "None"
        /\ writer[path].state = "terminated" =>
                /\ Entries(path) = 1
                /\ \A o \in open(pages, path) : o.kind = "Some" /\ o.handle.path = path

\* ------------------------------------------------- segment finalisation
IoPaths == {"c.store"}
\* the file written through open_write's writer
FinalPath == "a.store"
IoData == {Pattern(1), Pattern(MAX_HEAP_TUPLE_SIZE + 1)}

\* terminate on the BufWriter open_write returned: flush, then terminate_ref
\* unless the flush panicked; what it returns and what create returned
Finalise(path) ==
    /\ writer[path].state = "open"
    /\ \E flushed \in flush([pages |-> pages, fsm |-> fsm], writer[path]) :
        IF flushed.writer.state = "panicked"
        THEN /\ pages' = flushed.pages
             /\ fsm' = flushed.fsm
             /\ writer' = [writer EXCEPT ![path] = flushed.writer]
             /\ opOut' = [NoOp EXCEPT !.op = "SegmentHandleWriter::terminate",
                                      !.path = path, !.kind = "Panic"]
        ELSE \E out \in terminate_ref([pages |-> flushed.pages, fsm |-> flushed.fsm],
                                      flushed.writer) :
             /\ pages' = out.pages
             /\ fsm' = out.fsm
             /\ writer' = [writer EXCEPT ![path] = out.writer]
             /\ opOut' = [NoOp EXCEPT !.op = "SegmentHandleWriter::terminate",
                                      !.path = path,
                                      !.kind = IF out.writer.state = "terminated"
                                               THEN "Ok" ELSE "Panic",
                                      !.handle = [path |-> path,
                                                  blocks |-> out.writer.blocks,
                                                  total_bytes |-> out.writer.total_bytes],
                                      !.created = out.created]
    /\ segOut' = NoSegRead
    /\ UNCHANGED segWritten
    /\ UNCHANGED <<lwlock, backend, catalog, busy>>
    /\ UNCHANGED <<atomicVars, stepVars, bridgeVars>>

\* a file written through an IoWriter: new, write(data), terminate
IoFinalise(path, data) ==
    /\ Entries(path) = 0
    /\ \E out \in IoWriter_terminate_ref([pages |-> pages, fsm |-> fsm],
                                         IoWriter_write(IoWriter_new(path), data)) :
        /\ pages' = out.pages
        /\ fsm' = out.fsm
        /\ opOut' = [NoOp EXCEPT !.op = "IoWriter::terminate", !.path = path,
                                 !.kind = IF out.kind = "Ok" THEN "Ok" ELSE "Panic",
                                 !.created = out.created]
    /\ UNCHANGED <<lwlock, backend, catalog, busy>>
    /\ UNCHANGED <<atomicVars, stepVars, segVars, bridgeVars>>

\* flush, while the writer has recorded fewer than MaxEntryBlocks blocks
FlushSome(path) ==
    /\ Len(writer[path].blocks) < MaxEntryBlocks
    /\ Flush(path)

InitFinalise == InitSegment

NextFinalise ==
    \/ OpenWrite(FinalPath)
    \/ Write(FinalPath, Pattern(MAX_HEAP_TUPLE_SIZE))
    \/ FlushSome(FinalPath)
    \/ Finalise(FinalPath)
    \/ \E path \in IoPaths, data \in IoData : IoFinalise(path, data)
    \/ \E path \in IoPaths : Delete(path)

SpecFinalise == InitFinalise /\ [][NextFinalise]_vars

\* C29: when SegmentHandle::create returns an error while a segment writer
\* is terminated, terminate does not return Ok.
C29_CatalogFailureReported ==
    (/\ opOut.op \in {"SegmentHandleWriter::terminate", "IoWriter::terminate"}
     /\ opOut.created = "Err") =>
        opOut.kind # "Ok"

\* ----------------------------------------------------------- ambulkdelete
BulkCtidSets == {{1}, {1, 2}}

\* one iteration of the foreground loop of ambulkdelete: every result is
\* unwrapped, so an Err panics; the callback decides which ctids are dead
bulk_arm(st, message) ==
    CASE message.kind \in {"AtomicRead", "AtomicWrite", "GetSegmentHandle"} ->
            {[a EXCEPT !.state = IF @ = "failed" THEN "panicked" ELSE @]
                : a \in receive_blocking_arm(st, {}, message)}
      [] message.kind = "ShouldDeleteCtids" ->
            {Arm(st.pages, st.fsm, {}, "running",
                 [Response(message.kind) EXCEPT !.ctids = dead], "Ok", <<>>)
                : dead \in SUBSET message.ctids}
      [] message.kind = "Terminate" ->
            {Arm(st.pages, st.fsm, {}, "returned", NoResponse, "Ok", <<>>)}

\* the foreground loop takes the next message
BulkLoop ==
    /\ handler = "running"
    /\ taken < Len(requests)
    /\ \E out \in bulk_arm([pages |-> pages, fsm |-> fsm], requests[taken + 1]) :
        /\ pages' = out.pages
        /\ fsm' = out.fsm
        /\ handler' = out.state
        /\ responses' = IF out.resp.kind = "" THEN responses
                        ELSE Append(responses, [out.resp EXCEPT !.id = taken + 1])
        /\ handled' = [id |-> taken + 1, request |-> requests[taken + 1],
                       kind |-> out.kind, data |-> out.data]
    /\ taken' = taken + 1
    /\ UNCHANGED <<nThreads, worker, requests, receivedBy, held, unlocks>>
    /\ UNCHANGED <<atomicVars, stepVars, segVars>>
    /\ UNCHANGED sideVars

\* the last statement of the worker thread: reached only if nothing before
\* it panicked
BulkTerminate ==
    /\ worker[1].pc = "run"
    /\ requests' = Append(requests, [NoRequest EXCEPT !.kind = "Terminate", !.from = 1])
    /\ worker' = [worker EXCEPT ![1].pc = "exited"]
    /\ UNCHANGED <<nThreads, taken, responses, receivedBy, handler, held, handled, unlocks>>
    /\ UNCHANGED <<storeVars, atomicVars, stepVars, segVars>>
    /\ UNCHANGED sideVars

InitBulk ==
    /\ InitBridge
    /\ nThreads = 1

\* the worker thread: Index::open and the commit read and write the atomic
\* slots, each segment's ctids are asked about, any unwrap may panic
BulkWorker ==
    \/ \E path \in BridgeAtomicPaths : ChannelDirectory_atomic_read(1, path)
    \/ \E path \in BridgeAtomicPaths : ChannelDirectory_atomic_write(1, path, Pattern(MaxLen))
    \/ \E path \in SegPaths : ChannelReader_new(1, path)
    \/ \E ctids \in BulkCtidSets : SendShouldDeleteCtids(1, ctids)
    \/ Recv(1)
    \/ WorkerPanic(1)
    \/ BulkTerminate

NextBulk ==
    \/ BulkWorker
    \/ BulkLoop

SpecBulk ==
    /\ InitBulk
    /\ [][NextBulk]_vars
    /\ WF_vars(BulkLoop)
    /\ WF_vars(Recv(1))

\* C10: Terminate reaches the foreground loop of ambulkdelete even when the
\* worker thread panics: a worker that has panicked has sent Terminate.
C10_BulkDeleteTermination ==
    worker[1].pc = "panicked" => Terminates # {}

\* ------------------------------------------------------ ShouldDeleteCtids
\* the identifiers a request names: Vec<u64>, in order, repeats allowed
CtidValues == 1..MaxCtids
CtidSeqs == SeqsUpTo(CtidValues, MaxCtids)

\* Option<impl Fn(u64) -> bool>: no predicate, or the one that is true of
\* the identifiers in dead
Predicates ==
    {[some |-> FALSE, dead |-> {}]} \cup {[some |-> TRUE, dead |-> d] : d \in SUBSET CtidValues}

\* a filter that collects from the back
RECURSIVE filter_ctids_Reversed(_, _)
filter_ctids_Reversed(dead, ctids) ==
    IF ctids = <<>> THEN <<>>
    ELSE IF Head(ctids) \in dead
    THEN Append(filter_ctids_Reversed(dead, Tail(ctids)), Head(ctids))
    ELSE filter_ctids_Reversed(dead, Tail(ctids))

\* ctids.into_iter().filter(|&ctid_val| should_delete(ctid_val)).collect()
RECURSIVE filter_ctids(_, _)
filter_ctids(dead, ctids) ==
    IF ctids = <<>> THEN <<>>
    ELSE IF Head(ctids) \in dead
    THEN <<Head(ctids)>> \o filter_ctids(dead, Tail(ctids))
    ELSE filter_ctids(dead, Tail(ctids))

\* the ShouldDeleteCtids arm: what it sends back
ShouldDeleteCtids_arm(pred, ctids) ==
    IF pred.some THEN filter_ctids(pred.dead, ctids) ELSE <<>>

\* a handler serves its first ShouldDeleteCtids request: loop is receive_blocking
\* (called with should_delete) or the foreground loop of ambulkdelete
\* (called with the callback)
ServeShouldDeleteCtids(loop, pred, ctids) ==
    /\ handled.id = 0
    /\ handled' = [NoHandled EXCEPT
                      !.id = 1,
                      !.request = [NoRequest EXCEPT !.kind = "ShouldDeleteCtids",
                                                    !.ctids = ctids],
                      !.kind = "Ok"]
    /\ responses' = <<[NoResponse EXCEPT !.kind = "ShouldDeleteCtids", !.id = 1,
                                         !.ctids = ShouldDeleteCtids_arm(pred, ctids)]>>
    /\ opOut' = [NoOp EXCEPT !.op = loop,
                             !.kind = IF pred.some THEN "Some" ELSE "None",
                             !.expected = pred.dead]
    /\ UNCHANGED <<nThreads, worker, requests, taken, receivedBy, handler, held, unlocks>>
    /\ UNCHANGED <<lwlock, backend, catalog, busy>>
    /\ UNCHANGED <<storeVars, atomicVars, stepVars, segVars>>

InitFilter == InitCatalog

NextFilter ==
    \/ \E pred \in Predicates, ctids \in CtidSeqs :
            ServeShouldDeleteCtids("receive_blocking", pred, ctids)
    \/ \E pred \in Predicates, ctids \in CtidSeqs :
            ServeShouldDeleteCtids("ambulkdelete", pred, ctids)

SpecFilter == InitFilter /\ [][NextFilter]_vars

\* the positions of the request whose identifier the predicate is true of
Kept == {k \in 1..Len(handled.request.ctids) : handled.request.ctids[k] \in opOut.expected}

\* the i-th of them, counted from the front
KeptAt(i) == CHOOSE k \in Kept : Cardinality({j \in Kept : j <= k}) = i

\* C28: the reply to ShouldDeleteCtids holds, in the order of the request,
\* exactly the requested identifiers of which the predicate is true, each as
\* often as it was requested; without a predicate the reply is empty.
C28_ShouldDeleteCtids ==
    \A r \in 1..Len(responses) :
        responses[r].kind = "ShouldDeleteCtids" /\ opOut.kind \in {"Some", "None"} =>
            IF opOut.kind = "None"
            THEN responses[r].ctids = <<>>
            ELSE /\ Len(responses[r].ctids) = Cardinality(Kept)
                 /\ \A i \in 1..Len(responses[r].ctids) :
                        responses[r].ctids[i] = handled.request.ctids[KeptAt(i)]

\* a reply of two different identifiers to a request of three, one of which
\* the predicate was false of
C28_Witness ==
    /\ opOut.kind = "Some"
    /\ Len(handled.request.ctids) = MaxCtids
    /\ Len(responses) = 1
    /\ Len(responses[1].ctids) = MaxCtids - 1
    /\ responses[1].ctids[1] # responses[1].ctids[MaxCtids - 1]

\* ------------------------------------------------------------ page chains
\* the first blocks of the three chains: the catalog, the meta slot and the
\* managed slot
ChainHeads == {SEGMENT_HANDLE_BLOCKNO, TANTIVY_META_BLOCKNO, TANTIVY_MANAGED_BLOCKNO}

\* the walk `while current_blockno != InvalidBlockNumber` along next_blockno
\* from block b: the pages it visits; it does not end if it leaves the
\* relation or comes to a page it has visited
RECURSIVE chain_walk(_, _, _)
chain_walk(pgs, b, seen) ==
    IF b = InvalidBlockNumber THEN {[ends |-> TRUE, visited |-> seen]}
    ELSE IF ~ValidBlock(pgs, b) \/ b \in seen THEN {[ends |-> FALSE, visited |-> seen]}
    ELSE UNION {chain_walk(pgs, nb, seen \cup {b}) : nb \in SpecialNext(pgs, b)}

\* C31: every page chain is terminated: from the first block of the catalog,
\* of the meta slot and of the managed slot, following next_blockno reaches
\* InvalidBlockNumber after finitely many pages, none of them a reserved
\* block other than the chain's first, in every reachable state.
C31_ChainsTerminated ==
    \A h \in ChainHeads :
        \A w \in chain_walk(pages, h, {}) :
            /\ w.ends
            /\ w.visited \cap (ReservedBlocks \ {h}) = {}

\* ------------------------------------------------- locks over the bridge
\* the AcquireLock arm has found the lock held through the bridge: the
\* foreground thread, which holds the page's lock, waits in LockBuffer
AcquireWaits ==
    /\ handled.request.kind = "AcquireLock"
    /\ handled.request.lock \in held
    /\ handled.kind = "Blocked"

\* C32: an AcquireLock(L) sent while L is held through the bridge does not
\* stop the handler: the holder's ReleaseBlockingLock is processed and the
\* waiting AcquireLock is eventually answered.
C32_NoBridgeDeadlock ==
    AcquireWaits ~> (\E k \in 1..Len(responses) : responses[k].id = handled.id)

\* the ReleaseBlockingLock requests sent so far
Releases == {i \in 1..Len(requests) : requests[i].kind = "ReleaseBlockingLock"}

\* C39: in amvacuumcleanup every ReleaseBlockingLock is sent before the
\* Terminate, on the normal path and on the panic path, and once
\* receive_blocking has returned on Terminate no lock acquired through
\* AcquireLock is held any more.
C39_ReleasedBeforeTerminate ==
    /\ \A i \in Releases : \A j \in Terminates : i < j
    /\ handler = "returned" => held = {}

\* ------------------------------------------------- delete and live segments
\* the blocks of the segments that were created, other than path, and that no
\* delete_with_stats was called for
LiveBlocks(path) ==
    UNION {Range(catalog[i].blocks) :
            i \in {j \in 1..Len(catalog) : catalog[j].path \notin deleted \cup {path}}}

\* the blocks whose items a call removed or that it recorded free
Cleared(before, after, freeBefore, freeAfter) ==
    {b \in 0..(Len(before) - 1) : PageOf(after, b).items # PageOf(before, b).items}
        \cup (freeAfter \ freeBefore)

\* BlockingDirectory::delete_with_stats(path), with the pages it cleared
DeleteWithStats(path) ==
    /\ \E d \in delete_with_stats([pages |-> pages, fsm |-> fsm], path) :
        /\ pages' = d.pages
        /\ fsm' = d.fsm
        /\ opOut' = [NoOp EXCEPT !.op = "delete_with_stats", !.path = path,
                                 !.kind = d.kind, !.handle = Created(path),
                                 !.size = Len(pages),
                                 !.pages_deleted = d.pages_deleted,
                                 !.expected = LiveBlocks(path),
                                 !.reclaimed = Cleared(pages, d.pages, fsm, d.fsm)]
    /\ deleted' = IF Created(path) # NoHandle THEN deleted \cup {path} ELSE deleted
    /\ UNCHANGED <<proc, pageLock>>
    /\ UNCHANGED <<lwlock, backend, catalog, busy>>
    /\ UNCHANGED <<atomicVars, segVars, bridgeVars>>

\* a file's bytes: none, or less than a page
DeleteData == {<<>>, Pattern(1)}

\* one of the first MaxSegments files is written and terminated
CreateSegment(data) ==
    /\ Len(catalog) < MaxSegments
    /\ Create(data)

InitDelete == InitCatalog

NextDelete ==
    \/ \E data \in DeleteData : CreateSegment(data)
    \/ \E path \in KnownPaths : DeleteWithStats(path)

SpecDelete == InitDelete /\ [][NextDelete]_vars

\* C35: delete_with_stats(p) never clears or records free a page that at that
\* moment is in the block list of another segment that has not been deleted,
\* also when p was deleted before and its pages have been reused.
C35_DeleteSparesLive ==
    opOut.op = "delete_with_stats" => opOut.reclaimed \cap opOut.expected = {}

\* -------------------------------------------------------- SearchIndexWriter
\* the serialized IndexMeta: first what a commit leaves as it was (settings,
\* schema, payload), then one byte for each segment
MetaHeader == 0
serialize_meta(segments) == <<MetaHeader>> \o segments

\* Index::load_metas: the meta slot is read and parsed
load_metas(pgs) ==
    {IF r.kind = "Ok" /\ r.data[1] = MetaHeader
     THEN [kind |-> "Ok", segments |-> Tail(r.data)]
     ELSE [kind |-> "Err", segments |-> <<>>]
        : r \in atomic_read(pgs, META_FILEPATH)}

\* Index::create on a new relation: the meta of an index without segments
Index_create ==
    {[pages |-> w.pages, fsm |-> w.fsm]
        : w \in {o \in atomic_write([pages |-> create_metadata, fsm |-> {}],
                                    META_FILEPATH, serialize_meta(<<>>)) :
                    o.kind = "Ok"}}

\* commit up to load_metas: finalize writes the segment's file, then the
\* committed meta is loaded
commit_load(st, path, data) ==
    UNION {{[pages |-> w.pages, fsm |-> w.fsm, kind |-> m.kind, segments |-> m.segments]
                : m \in load_metas(w.pages)}
            : w \in direct_write(st, path, data)}

\* the rest of commit: the loaded segments and the writer's own are stored
commit_store(st, segments, segment) ==
    {[pages |-> o.pages, fsm |-> o.fsm, kind |-> IF o.kind = "Ok" THEN "Ok" ELSE "Err"]
        : o \in atomic_write(st, META_FILEPATH, serialize_meta(Append(segments, segment)))}

\* SearchIndexWriter::commit
commit(st, segment, path, data) ==
    UNION {IF l.kind = "Ok"
           THEN commit_store([pages |-> l.pages, fsm |-> l.fsm], l.segments, segment)
           ELSE {[pages |-> l.pages, fsm |-> l.fsm, kind |-> "Err"]}
            : l \in commit_load(st, path, data)}

\* the id of the segment of a backend's writer: no two writers share one
SegmentOf(p, n) == p + MaxProcs * n

\* init_insert_state: the InsertState that ii_AmCache holds, made with a
\* writer when there is none ("null"); "taken" is a state without its writer
init_insert_state(pgs, cache) ==
    IF cache = "null"
    THEN {IF m.kind = "Ok" THEN "writer" ELSE "panic" : m \in load_metas(pgs)}
    ELSE {cache}

\* aminsert_internal: the outcomes, each with the state it leaves in
\* ii_AmCache
aminsert_internal(st, cache, segment, data) ==
    UNION {
        IF state = "panic"
        THEN {[pages |-> st.pages, fsm |-> st.fsm, cache |-> "null", kind |-> "Panic"]}
        ELSE IF state = "taken"
        THEN {[pages |-> st.pages, fsm |-> st.fsm, cache |-> "taken", kind |-> "Panic"]}
        ELSE {[pages |-> o.pages, fsm |-> o.fsm, cache |-> "taken",
               kind |-> IF o.kind = "Ok" THEN "Ok" ELSE "Panic"]
                : o \in commit(st, segment, CatPathSeq[segment], data)}
        : state \in init_insert_state(st.pages, cache)}

\* ------------------------------------------------------------- insert spec
\* aminsert for one row, with the IndexInfo of the backend's statement; a
\* panic is an ERROR that aborts the statement, so no call follows one.
\* i tells the first call of a statement (1) from the later ones (2)
Aminsert(p, row) ==
    /\ proc[p].kind # "Panic"
    /\ SegmentOf(p, proc[p].done) <= Len(CatPathSeq)
    /\ \E o \in aminsert_internal([pages |-> pages, fsm |-> fsm], proc[p].cache,
                                  SegmentOf(p, proc[p].done), <<row>>) :
        /\ pages' = o.pages
        /\ fsm' = o.fsm
        /\ proc' = [proc EXCEPT ![p] =
                        [@ EXCEPT !.op = "aminsert", !.kind = o.kind, !.data = <<row>>,
                                  !.cache = o.cache,
                                  !.i = IF proc[p].cache = "null" THEN 1 ELSE 2,
                                  !.done = IF proc[p].cache # "taken" /\ o.cache = "taken"
                                           THEN @ + 1 ELSE @]]
    /\ UNCHANGED <<pageLock, deleted>>
    /\ UNCHANGED <<atomicVars, segVars, bridgeVars, sideVars>>

\* the statement ends and its memory context is freed; the backend's next
\* statement has a new IndexInfo
EndStatement(p) ==
    /\ proc[p].cache # "null"
    /\ proc' = [proc EXCEPT ![p] = [@ EXCEPT !.op = "", !.kind = "", !.data = <<>>,
                                             !.i = 0, !.cache = "null"]]
    /\ UNCHANGED <<pageLock, deleted>>
    /\ UNCHANGED <<storeVars, atomicVars, segVars, bridgeVars, sideVars>>

InitInsert ==
    /\ \E st \in Index_create :
        /\ pages = st.pages
        /\ fsm = st.fsm
    /\ InitAtomicIdle
    /\ InitSegIdle
    /\ InitBridgeIdle
    /\ InitSideIdle

NextInsert ==
    \/ \E p \in Procs : \E row \in Byte : Aminsert(p, row)
    \/ \E p \in Procs : EndStatement(p)

SpecInsert == InitInsert /\ [][NextInsert]_vars

\* C36: an aminsert call that finds in ii_AmCache the InsertState of an
\* earlier call of the statement (the second call and the later ones) inserts
\* its row and commits it without failing.
C36_RepeatedInserts ==
    \A p \in Procs : proc[p].op = "aminsert" /\ proc[p].i > 1 => proc[p].kind = "Ok"

\* ------------------------------------------------------------- commit spec
\* SearchIndexWriter::new: the writer gets a new segment and reads the
\* opstamp of the committed meta; no lock is taken
NewWriter(p) ==
    /\ proc[p].pc = "idle"
    /\ SegmentOf(p, proc[p].done) <= Len(CatPathSeq)
    /\ \E m \in load_metas(pages) :
        proc' = [proc EXCEPT ![p] =
                    IF m.kind = "Ok"
                    THEN [@ EXCEPT !.op = "commit", !.pc = "writer", !.kind = "",
                                   !.i = SegmentOf(p, proc[p].done),
                                   !.done = @ + 1]
                    ELSE [@ EXCEPT !.op = "new", !.kind = "Err"]]
    /\ UNCHANGED <<pageLock, deleted>>
    /\ UNCHANGED <<storeVars, atomicVars, segVars, bridgeVars, sideVars>>

\* insert(row) and commit up to load_metas
CommitLoad(p, row) ==
    /\ proc[p].pc = "writer"
    /\ \E l \in commit_load([pages |-> pages, fsm |-> fsm], CatPathSeq[proc[p].i], <<row>>) :
        /\ pages' = l.pages
        /\ fsm' = l.fsm
        /\ proc' = [proc EXCEPT ![p] =
                        IF l.kind = "Ok"
                        THEN [@ EXCEPT !.pc = "loaded", !.data = l.segments]
                        ELSE [@ EXCEPT !.pc = "idle", !.kind = "Err"]]
    /\ UNCHANGED <<pageLock, deleted>>
    /\ UNCHANGED <<atomicVars, segVars, bridgeVars, sideVars>>

\* the rest of commit; seen lists the segments whose commit returned Ok
CommitStore(p) ==
    /\ proc[p].pc = "loaded"
    /\ \E o \in commit_store([pages |-> pages, fsm |-> fsm], proc[p].data, proc[p].i) :
        /\ pages' = o.pages
        /\ fsm' = o.fsm
        /\ proc' = [proc EXCEPT ![p] =
                        [@ EXCEPT !.pc = "idle", !.kind = o.kind, !.data = <<>>,
                                  !.seen = IF o.kind = "Ok" THEN Append(@, proc[p].i)
                                           ELSE @]]
    /\ UNCHANGED <<pageLock, deleted>>
    /\ UNCHANGED <<atomicVars, segVars, bridgeVars, sideVars>>

InitCommit == InitInsert

NextCommit ==
    \/ \E p \in Procs : NewWriter(p)
    \/ \E p \in Procs : \E row \in Byte : CommitLoad(p, row)
    \/ \E p \in Procs : CommitStore(p)

SpecCommit == InitCommit /\ [][NextCommit]_vars

\* the segments whose commit returned Ok
Committed == UNION {Range(proc[p].seen) : p \in Procs}

\* C34: once the commits of all backends have returned, every segment whose
\* commit returned Ok is in the segment list that the meta slot holds.
C34_NoLostSegment ==
    (\A p \in Procs : proc[p].pc = "idle")
        => \A m \in load_metas(pages) :
                m.kind = "Ok" => Committed \subseteq Range(m.segments)

\* --------------------------------------------------- atomic slots, by page
\* A backend holds a page's lock from get_buffer to UnlockReleaseBuffer and
\* waits nowhere in between; read_bytes and write_bytes release the page
\* they hold before they wait for the next one.  A step is what a backend
\* does from one blocking get_buffer to the next.

\* read_bytes at one page: the item is appended and the next page named
read_bytes_step(pgs, cur, data, fuel) ==
    IF ~ValidBlock(pgs, cur) THEN {[pc |-> "idle", kind |-> "PgError", data |-> <<>>,
                                    cur |-> InvalidBlockNumber, i |-> fuel]}
    ELSE IF fuel = 0 THEN {[pc |-> "endless", kind |-> "Endless", data |-> <<>>,
                            cur |-> cur, i |-> fuel]}
    ELSE LET read == data \o FirstItemBytes(PageOf(pgs, cur))
         IN {IF nb = InvalidBlockNumber
             THEN [pc |-> "idle", kind |-> IF read = <<>> THEN "FileDoesNotExist" ELSE "Ok",
                   data |-> read, cur |-> nb, i |-> fuel - 1]
             ELSE [pc |-> "read", kind |-> "", data |-> read, cur |-> nb, i |-> fuel - 1]
                : nb \in SpecialNext(pgs, cur)}

\* write_bytes with cur locked and the chunks before i written: a new page
\* comes locked from new_buffer and the loop goes on, an existing next page
\* is waited for after cur is released
RECURSIVE write_bytes_from(_, _, _, _)
write_bytes_from(st, cur, chunks, i) ==
    IF i > Len(chunks)
    THEN {[pages |-> st.pages, fsm |-> st.fsm, pc |-> "idle", kind |-> "Ok",
           cur |-> InvalidBlockNumber, i |-> i]}
    ELSE UNION {
        IF nb = InvalidBlockNumber
        THEN UNION {write_bytes_from(
                        [pages |-> PutChunk(SetSpecialNext(nbuf.pages, cur, nbuf.blockno),
                                            nbuf.blockno, chunks[i]),
                         fsm |-> nbuf.fsm],
                        nbuf.blockno, chunks, i + 1)
                    : nbuf \in new_buffer(st, 1)}
        ELSE {[pages |-> st.pages, fsm |-> st.fsm, pc |-> "write", kind |-> "",
               cur |-> nb, i |-> i]}
        : nb \in SpecialNext(st.pages, cur)}

\* write_bytes from the get_buffer of cur, where chunk i goes
write_bytes_step(st, cur, chunks, i) ==
    IF ~ValidBlock(st.pages, cur)
    THEN {[pages |-> st.pages, fsm |-> st.fsm, pc |-> "idle", kind |-> "PgError",
           cur |-> InvalidBlockNumber, i |-> i]}
    ELSE write_bytes_from([st EXCEPT !.pages = PutChunk(st.pages, cur, chunks[i])],
                          cur, chunks, i + 1)

\* the outcomes in seq and those of S, each once
RECURSIVE AddAll(_, _)
AddAll(seq, S) ==
    IF S = {} THEN seq
    ELSE LET x == CHOOSE y \in S : TRUE
         IN AddAll(IF x \in Range(seq) THEN seq ELSE Append(seq, x), S \ {x})

\* get_buffer(b, mode) returns at once: no other lock on the page stands in
\* the way (a block outside the relation raises an error instead of waiting)
CanLock(b, mode) ==
    IF ~ValidBlock(pages, b) THEN TRUE
    ELSE /\ pageLock[b].x = 0
         /\ mode = "share" \/ pageLock[b].s = {}

\* ----------------------------------------------------------- torn-read spec
\* values of more than one page
TornData == {[i \in 1..(MAX_HEAP_TUPLE_SIZE + 1) |-> b] : b \in Byte}

Writing(path) == {w \in Procs : proc[w].op = "atomic_write" /\ proc[w].pc = "write"
                                    /\ proc[w].path = path}
Reading(path) == {r \in Procs : proc[r].op = "atomic_read" /\ proc[r].pc = "read"
                                    /\ proc[r].path = path}

\* what an atomic_read gives of the slot as it is
Stored(pgs, path) == atomic_read(pgs, path)

\* a backend calls atomic_read(path); seen lists what the slot held when no
\* write was under way, or before the writes under way began
BeginRead(p, path) ==
    /\ proc[p].pc = "idle"
    /\ proc' = [proc EXCEPT ![p] =
                    [NoProc EXCEPT !.op = "atomic_read", !.pc = "read", !.path = path,
                                   !.cur = SlotOf(path), !.i = MaxWalk,
                                   !.seen = IF Writing(path) = {}
                                            THEN AddAll(<<>>, Stored(pages, path))
                                            ELSE AddAll(<<>>, UNION {Range(proc[w].seen)
                                                                : w \in Writing(path)})]]
    /\ UNCHANGED <<pageLock, deleted>>
    /\ UNCHANGED <<storeVars, atomicVars, segVars, bridgeVars, sideVars>>

\* the read visits its next page
ReadStep(p) ==
    /\ proc[p].op = "atomic_read" /\ proc[p].pc = "read"
    /\ CanLock(proc[p].cur, "share")
    /\ \E o \in read_bytes_step(pages, proc[p].cur, proc[p].data, proc[p].i) :
        proc' = [proc EXCEPT ![p] = [@ EXCEPT !.pc = o.pc, !.kind = o.kind, !.data = o.data,
                                              !.cur = o.cur, !.i = o.i]]
    /\ UNCHANGED <<pageLock, deleted>>
    /\ UNCHANGED <<storeVars, atomicVars, segVars, bridgeVars, sideVars>>

\* a backend calls atomic_write(path, data); seen lists what the slot held
BeginWrite(p, path, data) ==
    /\ proc[p].pc = "idle"
    /\ proc' = [proc EXCEPT ![p] =
                    [NoProc EXCEPT !.op = "atomic_write", !.pc = "write", !.path = path,
                                   !.cur = SlotOf(path), !.i = 1, !.data = data,
                                   !.seen = AddAll(<<>>, Stored(pages, path))]]
    /\ UNCHANGED <<pageLock, deleted>>
    /\ UNCHANGED <<storeVars, atomicVars, segVars, bridgeVars, sideVars>>

\* the write visits its next page; when it returns, the reads under way
\* note what the slot holds now
WriteStep(p) ==
    /\ proc[p].op = "atomic_write" /\ proc[p].pc = "write"
    /\ CanLock(proc[p].cur, "exclusive")
    /\ \E o \in write_bytes_step([pages |-> pages, fsm |-> fsm], proc[p].cur,
                                 Chunks(proc[p].data), proc[p].i) :
        /\ pages' = o.pages
        /\ fsm' = o.fsm
        /\ proc' = [q \in Procs |->
                        IF q = p
                        THEN [proc[p] EXCEPT !.pc = o.pc, !.kind = o.kind, !.cur = o.cur,
                                             !.i = o.i]
                        ELSE IF o.pc = "idle" /\ q \in Reading(proc[p].path)
                                             /\ proc[q].seen # <<>>
                        THEN [proc[q] EXCEPT !.seen = AddAll(@, Stored(o.pages, proc[p].path))]
                        ELSE proc[q]]
    /\ UNCHANGED <<pageLock, deleted>>
    /\ UNCHANGED <<atomicVars, segVars, bridgeVars, sideVars>>

InitTorn == InitCatalog

NextTorn ==
    \/ \E p \in Procs : BeginRead(p, META_FILEPATH)
    \/ \E p \in Procs : ReadStep(p)
    \/ \E p \in Procs : \E data \in TornData : BeginWrite(p, META_FILEPATH, data)
    \/ \E p \in Procs : WriteStep(p)

SpecTorn == InitTorn /\ [][NextTorn]_vars

\* C33: an atomic_read that ran while other backends wrote the slot returns
\* what the slot held before those writes or what it held after one of them
\* had returned, never chunks of two values.
C33_NoTornRead ==
    \A p \in Procs :
        proc[p].op = "atomic_read" /\ proc[p].pc = "idle"
            => [kind |-> proc[p].kind, data |-> proc[p].data] \in Range(proc[p].seen)

\* ------------------------------------------------- catalog appends, by step
\* LWLockReleaseAll when an ERROR aborts the backend's transaction
ReleaseAll(locks, p) ==
    [b \in DOMAIN locks |-> [x |-> IF locks[b].x = p THEN 0 ELSE locks[b].x,
                             s |-> locks[b].s \ {p}]]

\* terminate_ref of a segment writer up to SegmentHandle::create's first
\* get_buffer: the data pages are written, each locked by new_buffer and
\* released
TerminateBegin(p, data) ==
    /\ proc[p].pc = "idle"
    /\ SegmentOf(p, proc[p].done) <= Len(CatPathSeq)
    /\ \E out \in write_pages([pages |-> pages, fsm |-> fsm], Chunks(data), 1, <<>>) :
        /\ pages' = out.pages
        /\ fsm' = out.fsm
        /\ proc' = [proc EXCEPT ![p] =
                        [NoProc EXCEPT !.op = "create", !.pc = "meta",
                                       !.path = CatPathSeq[SegmentOf(p, proc[p].done)],
                                       !.blocks = out.blocks, !.data = data,
                                       !.done = proc[p].done + 1]]
    /\ UNCHANGED <<pageLock, deleted>>
    /\ UNCHANGED <<atomicVars, segVars, bridgeVars, sideVars>>

\* create locks the Metadata Page and reads the insert pointer
CreateLockMeta(p) ==
    /\ proc[p].op = "create" /\ proc[p].pc = "meta"
    /\ CanLock(METADATA_BLOCKNO, "exclusive")
    /\ pageLock' = [pageLock EXCEPT ![METADATA_BLOCKNO].x = p]
    /\ proc' = [proc EXCEPT ![p] =
                    [@ EXCEPT !.pc = "insert",
                              !.cur = PageOf(pages, METADATA_BLOCKNO).segment_handle_insert_blockno]]
    /\ UNCHANGED deleted
    /\ UNCHANGED <<storeVars, atomicVars, segVars, bridgeVars, sideVars>>

\* create locks the insert page and appends; both locks are released, before
\* the second PageAddItemExtended when a page was linked; bail! returns with
\* the linked page still locked
CreateAppend(p) ==
    /\ proc[p].op = "create" /\ proc[p].pc = "insert"
    /\ CanLock(proc[p].cur, "exclusive")
    /\ \E made \in create([pages |-> pages, fsm |-> fsm], proc[p].path, proc[p].blocks,
                          Len(proc[p].data)) :
        LET linked == PageOf(made.pages, METADATA_BLOCKNO).segment_handle_insert_blockno
            freed == [pageLock EXCEPT ![METADATA_BLOCKNO].x = 0]
        IN /\ pages' = made.pages
           /\ fsm' = made.fsm
           /\ pageLock' = IF made.kind = "Err" THEN [freed EXCEPT ![linked].x = p]
                          ELSE IF made.kind = "PgError" THEN ReleaseAll(pageLock, p)
                          ELSE freed
           /\ proc' = [proc EXCEPT ![p] = [@ EXCEPT !.pc = "idle", !.kind = made.kind,
                                                    !.cur = InvalidBlockNumber]]
           /\ catalog' = IF made.kind = "Ok"
                         THEN Append(catalog, [path |-> proc[p].path,
                                               blocks |-> proc[p].blocks,
                                               total_bytes |-> Len(proc[p].data)])
                         ELSE catalog
    /\ UNCHANGED <<deleted, lwlock, backend, opOut, busy>>
    /\ UNCHANGED <<atomicVars, segVars, bridgeVars>>

\* delete_with_stats by a backend, at a moment when no create holds a lock;
\* the segment that is deleted is the one created first
DeleteUnlocked(path) ==
    /\ \A b \in DOMAIN pageLock : pageLock[b] = NoLock
    /\ DeleteWithStats(path)

InitAppend == InitCatalog

NextAppend ==
    \/ \E p \in Procs : \E data \in CatData : TerminateBegin(p, data)
    \/ \E p \in Procs : CreateLockMeta(p)
    \/ \E p \in Procs : CreateAppend(p)
    \/ DeleteUnlocked(CatPathSeq[1])

SpecAppend == InitAppend /\ [][NextAppend]_vars

\* no backend is inside an operation
AllIdle == \A p \in Procs : proc[p].pc = "idle"

\* every entry whose create returned Ok is what open returns for its path
EntriesFound ==
    \A k \in 1..Len(catalog) :
        \A o \in open(pages, catalog[k].path) :
            o.kind = "Some" /\ o.handle = catalog[k]

\* the walk along next_blockno from block b comes to target, over pages of
\* the relation and none of them twice
RECURSIVE link_walk(_, _, _, _)
link_walk(pgs, b, target, seen) ==
    IF b = target THEN {ValidBlock(pgs, b)}
    ELSE IF b = InvalidBlockNumber \/ ~ValidBlock(pgs, b) \/ b \in seen THEN {FALSE}
    ELSE UNION {link_walk(pgs, nb, target, seen \cup {b}) : nb \in SpecialNext(pgs, b)}

\* C37: once the concurrent calls of SegmentHandle::create have returned,
\* open returns every created entry, and the catalog chain leads from its
\* first page, over each linked page once, to the page the insert pointer
\* names.
C37_AppendsSerialized ==
    AllIdle =>
        /\ EntriesFound
        /\ \A reached \in link_walk(pages, SEGMENT_HANDLE_BLOCKNO,
                                    PageOf(pages, METADATA_BLOCKNO).segment_handle_insert_blockno,
                                    {}) : reached

\* ------------------------------------------------ direct operations, by step
\* SegmentHandle::open at one page of the catalog, share-locked: the entry is
\* found, or the walk goes on; an item that does not parse returns Err from
\* inside the loop and a miss returns after get_buffer(InvalidBlockNumber),
\* both with the page still locked (leak names it)
open_step(pgs, cur, path, fuel) ==
    IF ~ValidBlock(pgs, cur)
    THEN {[pc |-> "idle", kind |-> "PgError", handle |-> NoHandle, pages |-> pgs,
           cur |-> InvalidBlockNumber, leak |-> InvalidBlockNumber]}
    ELSE IF fuel = 0
    THEN {[pc |-> "endless", kind |-> "Endless", handle |-> NoHandle, pages |-> pgs,
           cur |-> cur, leak |-> InvalidBlockNumber]}
    ELSE
    LET items == PageOf(pgs, cur).items
        k == ScanStop(items, path)
    IN IF k # 0
       THEN IF IsHandle(items[k])
            THEN {[pc |-> "idle", kind |-> "Some", handle |-> HandleOf(items[k]),
                   pages |-> pgs, cur |-> InvalidBlockNumber, leak |-> InvalidBlockNumber]}
            ELSE {[pc |-> "idle", kind |-> "Err", handle |-> NoHandle, pages |-> pgs,
                   cur |-> InvalidBlockNumber, leak |-> cur]}
       ELSE UNION {
            IF nb = InvalidBlockNumber
            THEN IF Len(pgs) < MaxBlocks
                 THEN {[pc |-> "idle", kind |-> "None", handle |-> NoHandle,
                        pages |-> ExtendByRead(pgs), cur |-> InvalidBlockNumber,
                        leak |-> Len(pgs)]}
                 ELSE {}
            ELSE {[pc |-> "open", kind |-> "", handle |-> NoHandle, pages |-> pgs,
                   cur |-> nb, leak |-> InvalidBlockNumber]}
            : nb \in SpecialNext(pgs, cur)}

\* the operations that begin with SegmentHandle::open(path): open itself,
\* delete_with_stats and the read of a segment file
OpenOps == {"open", "delete_with_stats", "read_bytes"}

OpenBegin(p, op, path) ==
    /\ proc[p].pc = "idle"
    /\ proc[p].done < MaxOps
    /\ proc' = [proc EXCEPT ![p] =
                    [NoProc EXCEPT !.op = op, !.pc = "open", !.path = path,
                                   !.cur = SEGMENT_HANDLE_BLOCKNO, !.i = MaxWalk,
                                   !.done = proc[p].done + 1]]
    /\ UNCHANGED <<pageLock, deleted>>
    /\ UNCHANGED <<storeVars, atomicVars, segVars, bridgeVars, sideVars>>

\* open visits its next catalog page.  With the handle, delete_with_stats
\* and read_bytes go on to the file's blocks; delete_with_stats unwraps the
\* result and its panic is an ERROR
OpenStep(p) ==
    /\ proc[p].op \in OpenOps /\ proc[p].pc = "open"
    /\ CanLock(proc[p].cur, "share")
    /\ \E o \in open_step(pages, proc[p].cur, proc[p].path, proc[p].i) :
        LET aborts == o.kind = "PgError" \/ (o.kind = "Err" /\ proc[p].op = "delete_with_stats")
            goes_on == o.kind = "Some" /\ proc[p].op # "open" /\ Len(o.handle.blocks) > 0
        IN /\ pages' = o.pages
           /\ pageLock' = IF aborts THEN ReleaseAll(pageLock, p)
                          ELSE IF o.leak # InvalidBlockNumber
                          THEN [pageLock EXCEPT ![o.leak].s = @ \cup {p}]
                          ELSE pageLock
           /\ proc' = [proc EXCEPT ![p] =
                        IF goes_on
                        THEN [@ EXCEPT !.pc = "blocks", !.blocks = o.handle.blocks, !.i = 1,
                                       !.cur = InvalidBlockNumber]
                        ELSE [@ EXCEPT !.pc = o.pc, !.kind = o.kind, !.cur = o.cur,
                                       !.i = IF o.pc = "open" THEN @ - 1 ELSE @]]
    /\ UNCHANGED <<fsm, deleted>>
    /\ UNCHANGED <<atomicVars, segVars, bridgeVars, sideVars>>

\* delete_with_stats at one block of the file: locked exclusively, emptied,
\* recorded free, released
DeleteStep(p) ==
    /\ proc[p].op = "delete_with_stats" /\ proc[p].pc = "blocks"
    /\ CanLock(proc[p].blocks[proc[p].i], "exclusive")
    /\ LET d == delete_blocks([pages |-> pages, fsm |-> fsm], <<proc[p].blocks[proc[p].i]>>, 1, 0)
           last == proc[p].i = Len(proc[p].blocks)
       IN /\ pages' = d.pages
          /\ fsm' = d.fsm
          /\ pageLock' = IF d.kind = "Ok" THEN pageLock ELSE ReleaseAll(pageLock, p)
          /\ proc' = [proc EXCEPT ![p] =
                        IF d.kind = "Ok" /\ ~last
                        THEN [@ EXCEPT !.i = @ + 1]
                        ELSE [@ EXCEPT !.pc = "idle", !.kind = d.kind]]
    /\ UNCHANGED deleted
    /\ UNCHANGED <<atomicVars, segVars, bridgeVars, sideVars>>

\* SegmentHandleReader::read_bytes at one block of the file, share-locked
SegmentReadStep(p) ==
    /\ proc[p].op = "read_bytes" /\ proc[p].pc = "blocks"
    /\ CanLock(proc[p].blocks[proc[p].i], "share")
    /\ LET valid == ValidBlock(pages, proc[p].blocks[proc[p].i])
           last == proc[p].i = Len(proc[p].blocks)
       IN /\ pageLock' = IF valid THEN pageLock ELSE ReleaseAll(pageLock, p)
          /\ proc' = [proc EXCEPT ![p] =
                        IF valid /\ ~last
                        THEN [@ EXCEPT !.i = @ + 1]
                        ELSE [@ EXCEPT !.pc = "idle",
                                       !.kind = IF valid THEN "Ok" ELSE "PgError"]]
    /\ UNCHANGED deleted
    /\ UNCHANGED <<storeVars, atomicVars, segVars, bridgeVars, sideVars>>

\* atomic_read(path) and atomic_write(path, data) are called
AtomicReadCall(p, path) ==
    /\ proc[p].pc = "idle"
    /\ proc[p].done < MaxOps
    /\ proc' = [proc EXCEPT ![p] =
                    [NoProc EXCEPT !.op = "atomic_read", !.pc = "read", !.path = path,
                                   !.cur = SlotOf(path), !.i = MaxWalk,
                                   !.done = proc[p].done + 1]]
    /\ UNCHANGED <<pageLock, deleted>>
    /\ UNCHANGED <<storeVars, atomicVars, segVars, bridgeVars, sideVars>>

AtomicWriteCall(p, path, data) ==
    /\ proc[p].pc = "idle"
    /\ proc[p].done < MaxOps
    /\ proc' = [proc EXCEPT ![p] =
                    [NoProc EXCEPT !.op = "atomic_write", !.pc = "write", !.path = path,
                                   !.cur = SlotOf(path), !.i = 1, !.data = data,
                                   !.done = proc[p].done + 1]]
    /\ UNCHANGED <<pageLock, deleted>>
    /\ UNCHANGED <<storeVars, atomicVars, segVars, bridgeVars, sideVars>>

\* a segment writer is terminated
TerminateCall(p, data) ==
    /\ proc[p].done < MaxOps
    /\ TerminateBegin(p, data)

\* the steps of backend p that follow the call of an operation
Step(p) ==
    \/ ReadStep(p)
    \/ WriteStep(p)
    \/ CreateLockMeta(p)
    \/ CreateAppend(p)
    \/ OpenStep(p)
    \/ DeleteStep(p)
    \/ SegmentReadStep(p)

\* the files of the operations by step, and the bytes of a new file
DirectPaths == {CatPathSeq[1]}
DirectData == {Pattern(1)}

InitDirect == InitCatalog

NextDirect ==
    \/ \E p \in Procs : AtomicReadCall(p, META_FILEPATH)
    \/ \E p \in Procs : \E data \in DirectData : AtomicWriteCall(p, META_FILEPATH, data)
    \/ \E p \in Procs : \E data \in DirectData : TerminateCall(p, data)
    \/ \E p \in Procs : \E op \in OpenOps : \E path \in DirectPaths : OpenBegin(p, op, path)
    \/ \E p \in Procs : Step(p)

\* a backend that can take its next step takes it; buffer locks are granted
\* to those that wait for them
SpecDirect == InitDirect /\ [][NextDirect]_vars /\ \A p \in Procs : SF_vars(Step(p))

\* C38: every direct operation a backend has begun completes, as long as the
\* relation has room for the pages the operations allocate.
C38_OperationsComplete ==
    \A p \in Procs :
        (proc[p].pc # "idle") ~> (proc[p].pc = "idle" \/ Len(pages) = MaxBlocks)

====
